---- MODULE Spec2Model ----
(***************************************************************************)
(* Sensorless six-step BLDC controller (NovaDrone ESC firmware).           *)
(*                                                                         *)
(* The model covers the commutation state machine of control_six_step.c,   *)
(* the open-loop ramp engine of bldc_motor.c, the BEMF monitor, the speed  *)
(* PID, the one-shot timer driver and the inverter driver.                 *)
(*                                                                         *)
(* Numbers.  Floats are carried as scaled integers and every float         *)
(* expression is evaluated with floor division:                            *)
(*   duty        millionths            (0.5f -> 500000)                    *)
(*   period      microseconds                                              *)
(*   speed       mechanical RPM                                            *)
(*   BEMF        units of 3.3/(3*4095) V, so that (V_f - V_n) is the       *)
(*               integer 2*raw_f - raw_o1 - raw_o2                         *)
(*                                                                         *)
(* Scheduling.  The main context (command handler) is preemptible by the   *)
(* interrupt handlers between statements; the three interrupt handlers     *)
(* (fast loop, low loop, one-shot timer) run to completion with respect    *)
(* to one another.                                                         *)
(*                                                                         *)
(* Time.  The value of the monitor's timestamp of the last zero-crossing   *)
(* is not part of the state, only the fact that it is written: the time    *)
(* elapsed since it (Service_GetTimeUs() minus the stored timestamp) is an *)
(* input of each fast-loop cycle, and the one-shot timer expires at any    *)
(* moment while its counter is enabled.                                    *)
(*                                                                         *)
(* Left out.  The diagnostic counters s_zc_count and s_comm_count are      *)
(* written and never read; they are not part of the state.                 *)
(***************************************************************************)
EXTENDS Integers, Naturals, Sequences, FiniteSets, TLC

(***************************************************************************)
(* Bounds of the model                                                     *)
(***************************************************************************)
\* value at which the monitor's valid-streak counter saturates (255 in the firmware)
StreakSat == 2
\* largest magnitude the PID integrator is followed to, in millionths of duty
MaxIntegrator == 10
\* open-loop ramp starts followed in one run
MaxStarts == 1
\* open-loop ramp duration in ms used by the model (the firmware passes 1000)
RampTimeMs == 7
\* consecutive out-of-bounds zero-crossings followed (the counter saturates at 255)
MaxRejects == 6
\* ADC conversions followed in one run of the measurement channel
MaxConversions == 3
\* microseconds the clock is followed after the last zero-crossing timestamp,
\* far below the wrap-around of the 32-bit microsecond counter
MaxSinceUs == 1600000

(***************************************************************************)
(* Program constants                                                       *)
(***************************************************************************)
DutyOne == 1000000
MOTOR_POLE_PAIRS == 6
COMM_DELAY_MIN_US == 80
COMM_DELAY_MAX_US == 30000
\* COMM_LEAD_FACTOR 0.45f, in percent
COMM_LEAD_FACTOR == 45
CL_MIN_VALID_ZC == 4
\* CL_MIN_DUTY_TRANSITION 0.20f
CL_MIN_DUTY_TRANSITION == 200000
CL_ENTER_SPEED_HZ == 200
DEFAULT_RAMP_SLOPE_RPM_MS == 10
\* reversal threshold of Motor_LowLoop (400.0f RPM)
REVERSE_SPEED_RPM == 400
\* value standing for the float +inf of 1e6f / (6.0f * 0.0f)
RPM_INF == 1000000
\* alignment arguments of Service_Motor_Align_Rotor(0.10f, 500, ...)
ALIGN_DUTY == 100000
ALIGN_DURATION_MS == 500
\* ramp arguments of Motor_StartOpenLoopRamp
OL_DUTY_START == 500000
OL_DUTY_END == 600000
OL_FREQ_START_HZ == 25
OL_FREQ_END_HZ == 500
\* minimum ramp step delay (100.0f us)
RAMP_MIN_STEP_US == 100
\* one-shot driver minimum delay (min_delay_us = 5U)
ONESHOT_MIN_DELAY_US == 5
\* BEMF monitor thresholds
\* BEMF_MIN_AMPL_V 0.005f: |2a-b-c| * 3.3/(3*4095) < 0.005  <=>  |2a-b-c| < 19
BEMF_MIN_AMPL == 19
BEMF_MIN_PERIOD_US == 100
BEMF_MAX_PERIOD_US == 300000
BEMF_LOCK_COUNT == 2
BEMF_UNLOCK_COUNT == 5
\* saturation of the uint8_t invalid-streak counter
STREAK_MAX == 255
\* speed PID: Service_PID_Init(&speed_pid, 0.0005f, 0.001f, 0.0f, 0.001f),
\* gains per RPM in millionths of duty: kp*1e6 = 500, ki*dt*1e6 = 1, kd = 0
PID_KP == 500
PID_KI_DT == 1
PID_KD == 0
PID_OUT_MIN == 50000
PID_OUT_MAX == 950000
PID_INTEGRATOR_LIMIT == 500000

Phases == {"A", "B", "C"}

Min(a, b) == IF a < b THEN a ELSE b
Max(a, b) == IF a > b THEN a ELSE b
Abs(a) == IF a < 0 THEN -a ELSE a
\* float division truncated toward zero, as a C cast does
DivT(a, b) == IF a >= 0 THEN a \div b ELSE -((-a) \div b)

\* floor(sqrt(n)) by Newton iteration
RECURSIVE ISqrtNewton(_, _)
ISqrtNewton(n, x) ==
  LET y == (x + n \div x) \div 2 IN IF y >= x THEN x ELSE ISqrtNewton(n, y)
ISqrt(n) == IF n < 2 THEN n ELSE ISqrtNewton(n, n)

(***************************************************************************)
(* Inputs                                                                  *)
(***************************************************************************)
\* raw phase-voltage samples (ADC counts of phases A, B, C)
Samples == { [ok |-> TRUE, A |-> 2100, B |-> 2100, C |-> 1800],
             [ok |-> TRUE, A |-> 1800, B |-> 2100, C |-> 2100],
             [ok |-> TRUE, A |-> 2100, B |-> 1800, C |-> 2100] }
\* get_latest_measurements returning false: no new conversion
NoSample == [ok |-> FALSE, A |-> 0, B |-> 0, C |-> 0]
\* now - s_last_zc_time_us read by the monitor at a sign change, in microseconds
Periods == {600}
\* sample sets with a floating-phase BEMF above and below BEMF_MIN_AMPL
BemfSamples == { [ok |-> TRUE, A |-> 2100, B |-> 2100, C |-> 1800],
                 [ok |-> TRUE, A |-> 1800, B |-> 1800, C |-> 2100],
                 [ok |-> TRUE, A |-> 2001, B |-> 2001, C |-> 1998],
                 [ok |-> TRUE, A |-> 1999, B |-> 1999, C |-> 2002] }
\* a signal of one phase that changes sign at every sample
AlternatingSamples == { [ok |-> TRUE, A |-> 2100, B |-> 2100, C |-> 1800],
                        [ok |-> TRUE, A |-> 1800, B |-> 1800, C |-> 2100] }
\* arguments of Service_Motor_OpenLoopRamp_Start: the frequencies of the
\* firmware, and a frequency whose step period is below RAMP_MIN_STEP_US
RampArgs ==
  { [freq_start_hz |-> 25, freq_end_hz |-> 500, ramp_time_ms |-> RampTimeMs,
     profile_type |-> "EXPONENTIAL"],
    [freq_start_hz |-> 25, freq_end_hz |-> 500, ramp_time_ms |-> 0,
     profile_type |-> "LINEAR"],
    [freq_start_hz |-> 2000, freq_end_hz |-> 2500, ramp_time_ms |-> 1,
     profile_type |-> "LINEAR"] }
RampCallbacks == {"NULL", "on_complete"}
\* the same with a period below BEMF_MIN_PERIOD_US: a degraded signal
DegradedPeriods == {50, 600}
\* time between two calls of process(), in microseconds
ClockSteps == {200000, 400000}
\* time between the zero-crossing timestamp and the fast loop's own timestamp
Ages == {0, 300}
\* slope requests below, inside and above the accepted range, in RPM per ms
SlopeArgs == {0, 3, 1000}
\* forward speed command a few RPM under the speed of the handover
SlopeRpmCommands == {2772}
\* controllers: the one of Control_Motor_Init, one with all gains zero, one
\* with a derivative term and limits around zero, one with every limit zero,
\* one with all gains zero and limits around zero
PidConfigs ==
  { [kp |-> PID_KP, ki_dt |-> PID_KI_DT, kd |-> PID_KD, out_min |-> PID_OUT_MIN,
     out_max |-> PID_OUT_MAX, integrator_limit |-> PID_INTEGRATOR_LIMIT],
    [kp |-> 0, ki_dt |-> 0, kd |-> 0, out_min |-> PID_OUT_MIN,
     out_max |-> PID_OUT_MAX, integrator_limit |-> PID_INTEGRATOR_LIMIT],
    [kp |-> 1, ki_dt |-> 1, kd |-> 1, out_min |-> -400000,
     out_max |-> 400000, integrator_limit |-> 100000],
    [kp |-> 1, ki_dt |-> 1, kd |-> 0, out_min |-> 0,
     out_max |-> 0, integrator_limit |-> 0],
    [kp |-> 0, ki_dt |-> 0, kd |-> 0, out_min |-> -400000,
     out_max |-> 400000, integrator_limit |-> 100000] }
\* setpoints and measurements handed to the controller
PidInputs == {0, 50000, 200000, 600000}
\* signed speed commands of the command surface
RpmCommands == {-1500, 1500}
\* forward speed commands near the speed of the handover (2777 RPM)
ForwardRpmCommands == {2760}
\* faults an external notifier reports
Faults == {"OVERCURRENT"}

(***************************************************************************)
(* Six-step tables                                                         *)
(***************************************************************************)
sixstep_table_cw_TwoFloating ==
  << [A |-> "PWM_HIGH", B |-> "PWM_LOW",  C |-> "HIZ"],
     [A |-> "PWM_HIGH", B |-> "HIZ",      C |-> "HIZ"],
     [A |-> "HIZ",      B |-> "PWM_HIGH", C |-> "PWM_LOW"],
     [A |-> "PWM_LOW",  B |-> "PWM_HIGH", C |-> "HIZ"],
     [A |-> "PWM_LOW",  B |-> "HIZ",      C |-> "PWM_HIGH"],
     [A |-> "HIZ",      B |-> "PWM_LOW",  C |-> "PWM_HIGH"] >>

sixstep_table_cw ==
  << [A |-> "PWM_HIGH", B |-> "PWM_LOW",  C |-> "HIZ"],
     [A |-> "PWM_HIGH", B |-> "HIZ",      C |-> "PWM_LOW"],
     [A |-> "HIZ",      B |-> "PWM_HIGH", C |-> "PWM_LOW"],
     [A |-> "PWM_LOW",  B |-> "PWM_HIGH", C |-> "HIZ"],
     [A |-> "PWM_LOW",  B |-> "HIZ",      C |-> "PWM_HIGH"],
     [A |-> "HIZ",      B |-> "PWM_LOW",  C |-> "PWM_HIGH"] >>

sixstep_table_ccw ==
  << [A |-> "HIZ",      B |-> "PWM_LOW",  C |-> "PWM_HIGH"],
     [A |-> "PWM_LOW",  B |-> "HIZ",      C |-> "PWM_HIGH"],
     [A |-> "PWM_LOW",  B |-> "PWM_HIGH", C |-> "HIZ"],
     [A |-> "HIZ",      B |-> "PWM_HIGH", C |-> "PWM_LOW"],
     [A |-> "PWM_HIGH", B |-> "HIZ",      C |-> "PWM_LOW"],
     [A |-> "PWM_HIGH", B |-> "PWM_LOW",  C |-> "HIZ"] >>

float_phase_cw_Shifted == << "B", "A", "C", "B", "A", "C" >>
float_phase_cw == << "C", "B", "A", "C", "B", "A" >>
float_phase_ccw == << "A", "B", "C", "A", "B", "C" >>

Motor_GetFloatingPhase(step, direction_cw) ==
  IF direction_cw THEN float_phase_cw[(step % 6) + 1] ELSE float_phase_ccw[(step % 6) + 1]

(***************************************************************************)
(* State                                                                   *)
(***************************************************************************)
VARIABLES
  s_motor_mode,        \* control_six_step.c
  s_ctx,
  s_floating_phase,
  s_bemf_status,
  s_speed,             \* measured / target / commanded / buffer RPM and ramp slope
  speed_pid,
  s_valid_zc_count,    \* consecutive valid zero-crossings counted for the handover
  s_reverse_pending,
  bemf,                \* bemf_monitor.c file-scope state
  s_ramp_ctx,          \* bldc_motor.c
  s_align,             \* pending alignment completion callback
  s_timerContext,      \* one-shot timer driver
  inverter,            \* inverter driver: status, duties, PWM channels
  stop_pc,             \* position of the main context inside Control_Motor_Stop
  ramp_starts,         \* open-loop ramp starts so far (bounds the run)
  stop_returned,       \* history: Control_Motor_Stop has returned and no
                       \* Control_Motor_SetSpeed_RPM call has followed it
  adc,                 \* measurement channel: buffer, new-data flag, and the
                       \* positions of the ADC handler and of the fetch
  adc_hist,            \* history: conversions started, published and returned
  zc_hist,             \* history: what the calls of BEMF_Process were given
  ramp_pc,             \* position of a Service_Motor_OpenLoopRamp_Stop call of the
                       \* main context
  ramp_hist            \* history of the ramp engine: the last call, the calls of
                       \* on_complete since the start, the event a start displaced,
                       \* the step and direction the ramp applied last

vars == << s_motor_mode, s_ctx, s_floating_phase, s_bemf_status, s_speed, speed_pid,
           s_valid_zc_count, s_reverse_pending, bemf, s_ramp_ctx, s_align,
           s_timerContext, inverter, stop_pc, ramp_starts, stop_returned,
           adc, adc_hist, zc_hist, ramp_pc, ramp_hist >>

\* the program state as one record, so that C call sequences compose
Cur ==
  [ s_motor_mode |-> s_motor_mode, s_ctx |-> s_ctx, s_floating_phase |-> s_floating_phase,
    s_bemf_status |-> s_bemf_status, s_speed |-> s_speed, speed_pid |-> speed_pid,
    s_valid_zc_count |-> s_valid_zc_count, s_reverse_pending |-> s_reverse_pending, bemf |-> bemf,
    s_ramp_ctx |-> s_ramp_ctx, s_align |-> s_align,
    s_timerContext |-> s_timerContext, inverter |-> inverter, stop_pc |-> stop_pc,
    ramp_starts |-> ramp_starts, stop_returned |-> stop_returned,
    adc |-> adc, adc_hist |-> adc_hist, zc_hist |-> zc_hist,
    ramp_pc |-> ramp_pc, ramp_hist |-> ramp_hist ]

Becomes(s) ==
  /\ s_motor_mode' = s.s_motor_mode
  /\ s_ctx' = s.s_ctx
  /\ s_floating_phase' = s.s_floating_phase
  /\ s_bemf_status' = s.s_bemf_status
  /\ s_speed' = s.s_speed
  /\ speed_pid' = s.speed_pid
  /\ s_valid_zc_count' = s.s_valid_zc_count
  /\ s_reverse_pending' = s.s_reverse_pending
  /\ bemf' = s.bemf
  /\ s_ramp_ctx' = s.s_ramp_ctx
  /\ s_align' = s.s_align
  /\ s_timerContext' = s.s_timerContext
  /\ inverter' = s.inverter
  /\ stop_pc' = s.stop_pc
  /\ ramp_starts' = s.ramp_starts
  /\ stop_returned' = s.stop_returned
  /\ adc' = s.adc
  /\ adc_hist' = s.adc_hist
  /\ zc_hist' = s.zc_hist
  /\ ramp_pc' = s.ramp_pc
  \* the step the ramp applied last is kept while the motor is not Stopped
  /\ ramp_hist' = IF s.s_motor_mode = "STOPPED"
                  THEN [s.ramp_hist EXCEPT !.applied = [step |-> 0, cw |-> FALSE]]
                  ELSE s.ramp_hist


(***************************************************************************)
(* Inverter driver (driver_invertor.c)                                     *)
(***************************************************************************)
AllPhases(v) == [A |-> v, B |-> v, C |-> v]

\* Driver_Init, Driver_Arm, Driver_Enable as run by Services_Init
InverterInit ==
  [ status |-> [enabled |-> TRUE, armed |-> TRUE, running |-> TRUE, fault |-> "NONE"],
    duties |-> AllPhases(0),
    ccr |-> AllPhases(0),
    ch |-> AllPhases(TRUE),      \* TIM1 CHx started
    chn |-> AllPhases(TRUE) ]    \* TIM1 CHxN started

Driver_Disable(s) ==
  LET inv == [s.inverter EXCEPT !.ch = AllPhases(FALSE), !.chn = AllPhases(FALSE),
                                !.status.enabled = FALSE, !.status.running = FALSE]
  IN [s EXCEPT !.inverter = inv]

Driver_SetAllDuties(s, duties) ==
  IF \E ph \in Phases : duties[ph] < 0 \/ duties[ph] > DutyOne
  THEN s
  ELSE [s EXCEPT !.inverter.duties = duties, !.inverter.ccr = duties]

Driver_SetOutputState(s, phase, state) ==
  CASE state = "HIZ" ->
         [s EXCEPT !.inverter.ch[phase] = FALSE, !.inverter.chn[phase] = FALSE]
    [] state = "PWM_ACTIVE" ->
         [s EXCEPT !.inverter.ch[phase] = TRUE, !.inverter.chn[phase] = TRUE]
    [] state = "PWM_HIGH" ->
         [s EXCEPT !.inverter.ch[phase] = TRUE, !.inverter.chn[phase] = FALSE]
    [] state = "PWM_LOW" ->
         [s EXCEPT !.inverter.ch[phase] = FALSE, !.inverter.chn[phase] = TRUE]
    [] state = "FORCE_HIGH" ->
         [s EXCEPT !.inverter.ccr[phase] = DutyOne,
                   !.inverter.ch[phase] = TRUE, !.inverter.chn[phase] = FALSE]
    [] state = "FORCE_LOW" ->
         [s EXCEPT !.inverter.ccr[phase] = 0,
                   !.inverter.ch[phase] = FALSE, !.inverter.chn[phase] = TRUE]

Driver_NotifyFault(s, fault) ==
  Driver_Disable([s EXCEPT !.inverter.status.fault = fault])

Driver_ClearFaults(s) == [s EXCEPT !.inverter.status.fault = "NONE"]

\* a phase is driven when one of its two PWM channels runs
PhaseDriven(inv, ph) == inv.ch[ph] \/ inv.chn[ph]
OutputsOff(inv) == \A ph \in Phases : ~PhaseDriven(inv, ph)

\* the output state a six-step pattern entry leaves on the two channels of a phase
PatternApplied(inv, pattern) ==
  \A ph \in Phases :
    /\ inv.ch[ph] = (pattern[ph] = "PWM_HIGH")
    /\ inv.chn[ph] = (pattern[ph] = "PWM_LOW")

SixStepPattern(step, cw) ==
  IF cw THEN sixstep_table_cw[step + 1] ELSE sixstep_table_ccw[step + 1]

Inverter_SixStepCommutate(s, step, duty, cw) ==
  IF step >= 6 THEN s
  ELSE
    LET pattern == SixStepPattern(step, cw)
        duties == [ph \in Phases |-> IF pattern[ph] # "HIZ" THEN duty ELSE 0]
        s1 == Driver_SetAllDuties(s, duties)
        s2 == Driver_SetOutputState(s1, "A", pattern.A)
        s3 == Driver_SetOutputState(s2, "B", pattern.B)
        s4 == Driver_SetOutputState(s3, "C", pattern.C)
    IN s4

(***************************************************************************)
(* One-shot timer driver (driver_time_oneshot.c)                           *)
(***************************************************************************)
\* drv_oneshot_init
TimerInit ==
  [ is_active |-> FALSE, callback |-> "NULL", user_context |-> "NULL",
    hw_enabled |-> FALSE,       \* TIM5 counter enabled with update interrupt
    arr |-> 0 ]                 \* TIM5 auto-reload: the armed delay

drv_oneshot_start(s, delay_us, cb, user_ctx) ==
  IF cb = "NULL" THEN s
  ELSE
    LET d == Max(delay_us, ONESHOT_MIN_DELAY_US)
    IN [s EXCEPT !.s_timerContext =
          [is_active |-> TRUE, callback |-> cb, user_context |-> user_ctx,
           hw_enabled |-> TRUE, arr |-> d]]

drv_oneshot_cancel_NoDisarm(s) ==
  [s EXCEPT !.s_timerContext =
        [@ EXCEPT !.is_active = FALSE, !.callback = "NULL", !.user_context = "NULL"]]

drv_oneshot_cancel(s) ==
  [s EXCEPT !.s_timerContext =
        [@ EXCEPT !.hw_enabled = FALSE, !.is_active = FALSE,
                  !.callback = "NULL", !.user_context = "NULL"]]

drv_oneshot_isActive(s) == s.s_timerContext.is_active

(***************************************************************************)
(* Open-loop ramp engine (bldc_motor.c)                                    *)
(***************************************************************************)
\* memset(&s_ramp_ctx, 0, sizeof(s_ramp_ctx))
RampZero ==
  [ duty_start |-> 0, duty_end |-> 0, freq_start_hz |-> 0, freq_end_hz |-> 0,
    ramp_time_us |-> 0, direction_cw |-> FALSE, profile_type |-> "LINEAR",
    on_complete |-> "NULL", step_index |-> 0, elapsed_us |-> 0,
    current_duty |-> 0, current_freq_hz |-> 0, active |-> FALSE ]

\* (uint32_t)(d < 100.0f ? 100.0f : d) with d = 1e6f / (6.0f * freq)
RampStepDelayUs(freq_hz) == Max(1000000 \div (6 * freq_hz), RAMP_MIN_STEP_US)

\* powf(base, ratio) in thousandths, ratio in thousandths: the product of the
\* square roots base^(1/2), base^(1/4), ... selected by the binary digits of ratio
RECURSIVE PowBits(_, _, _)
PowBits(root, bits, n) ==
  IF n = 0 THEN 1000
  ELSE LET r == ISqrt(root * 1000)
           rest == PowBits(r, (bits * 2) % 64, n - 1)
       IN IF bits * 2 >= 64 THEN (r * rest) \div 1000 ELSE rest
Powf(base, ratio) ==
  IF ratio >= 1000 THEN base ELSE PowBits(base, (ratio * 64) \div 1000, 6)

\* frequency of the selected profile at progress ratio (thousandths)
RampFreqHz(profile, f_start, f_end, ratio) ==
  CASE profile = "EXPONENTIAL" ->
         (f_start * Powf((f_end * 1000) \div f_start, ratio)) \div 1000
    [] profile = "QUADRATIC" ->
         f_start + (((ratio * ratio) \div 1000) * (f_end - f_start)) \div 1000
    [] profile = "LOGARITHMIC" ->
         \* expf(-4 * ratio) = (e^-4)^ratio, e^-4 = 0.018
         f_end - ((f_end - f_start) * Powf(18, ratio)) \div 1000
    [] OTHER ->
         f_start + (ratio * (f_end - f_start)) \div 1000

\* duty_start + powf(ratio, 1.5f) * (duty_end - duty_start)
RampDuty(d_start, d_end, ratio) ==
  d_start + DivT(ISqrt((ratio * ratio * ratio) \div 1000) * (d_end - d_start), 1000)

Service_Motor_OpenLoopRamp_Start_KeepsStep(s, duty_start, duty_end, freq_start_hz, freq_end_hz, ramp_time_ms, cw, profile_type, on_complete) ==
  LET s1 == IF drv_oneshot_isActive(s) THEN drv_oneshot_cancel(s) ELSE s
      ctx == [ duty_start |-> duty_start, duty_end |-> duty_end,
               freq_start_hz |-> freq_start_hz, freq_end_hz |-> freq_end_hz,
               ramp_time_us |-> ramp_time_ms * 1000, direction_cw |-> cw,
               profile_type |-> profile_type, on_complete |-> on_complete,
               step_index |-> s.s_ramp_ctx.step_index, elapsed_us |-> 0,
               current_duty |-> duty_start,
               current_freq_hz |-> freq_start_hz, active |-> TRUE ]
      s2 == [s1 EXCEPT !.s_ramp_ctx = ctx]
      s3 == [Inverter_SixStepCommutate(s2, ctx.step_index, ctx.current_duty, cw) EXCEPT
               !.ramp_hist.applied = [step |-> ctx.step_index, cw |-> cw]]
  IN drv_oneshot_start(s3, RampStepDelayUs(ctx.current_freq_hz),
                       "Motor_Ramp_OnStepEvent", "s_ramp_ctx")

Service_Motor_OpenLoopRamp_Start(s, duty_start, duty_end, freq_start_hz, freq_end_hz, ramp_time_ms, cw, profile_type, on_complete) ==
  LET s1 == IF drv_oneshot_isActive(s) THEN drv_oneshot_cancel(s) ELSE s
      ctx == [ duty_start |-> duty_start, duty_end |-> duty_end,
               freq_start_hz |-> freq_start_hz, freq_end_hz |-> freq_end_hz,
               ramp_time_us |-> ramp_time_ms * 1000, direction_cw |-> cw,
               profile_type |-> profile_type, on_complete |-> on_complete,
               step_index |-> 0, elapsed_us |-> 0, current_duty |-> duty_start,
               current_freq_hz |-> freq_start_hz, active |-> TRUE ]
      s2 == [s1 EXCEPT !.s_ramp_ctx = ctx]
      s3 == [Inverter_SixStepCommutate(s2, ctx.step_index, ctx.current_duty, cw) EXCEPT
               !.ramp_hist.applied = [step |-> ctx.step_index, cw |-> cw]]
  IN drv_oneshot_start(s3, RampStepDelayUs(ctx.current_freq_hz),
                       "Motor_Ramp_OnStepEvent", "s_ramp_ctx")

Motor_Ramp_OnStepEvent_NoClamp(s, user_context) ==
  LET ctx == s.s_ramp_ctx IN
  IF user_context = "NULL" \/ ~ctx.active THEN s
  ELSE
    LET elapsed == ctx.elapsed_us + RampStepDelayUs(ctx.current_freq_hz) IN
    IF elapsed >= ctx.ramp_time_us
    THEN LET s1 == Driver_Disable([s EXCEPT !.s_ramp_ctx.elapsed_us = elapsed,
                                            !.s_ramp_ctx.active = FALSE])
         IN IF ctx.on_complete # "NULL"
            THEN [s1 EXCEPT !.ramp_hist.completions = Min(@ + 1, 2)]
            ELSE s1
    ELSE
      LET ratio == Min((elapsed * 1000) \div ctx.ramp_time_us, 1000)
          freq == RampFreqHz(ctx.profile_type, ctx.freq_start_hz, ctx.freq_end_hz, ratio)
          duty == RampDuty(ctx.duty_start, ctx.duty_end, ratio)
          step == (ctx.step_index + 1) % 6
          s1 == [s EXCEPT !.s_ramp_ctx.elapsed_us = elapsed,
                          !.s_ramp_ctx.current_freq_hz = freq,
                          !.s_ramp_ctx.current_duty = duty,
                          !.s_ramp_ctx.step_index = step]
          \* the step applied is recorded beside the ramp
      s2 == [Inverter_SixStepCommutate(s1, step, duty, ctx.direction_cw) EXCEPT
               !.ramp_hist.applied = [step |-> step, cw |-> ctx.direction_cw]]
      IN drv_oneshot_start(s2, 1000000 \div (6 * freq), "Motor_Ramp_OnStepEvent", "s_ramp_ctx")

Motor_Ramp_OnStepEvent_KeepsRunning(s, user_context) ==
  LET ctx == s.s_ramp_ctx IN
  IF user_context = "NULL" \/ ~ctx.active THEN s
  ELSE
    LET elapsed == ctx.elapsed_us + RampStepDelayUs(ctx.current_freq_hz)
        ratio == Min((elapsed * 1000) \div Max(ctx.ramp_time_us, 1), 1000)
        freq == RampFreqHz(ctx.profile_type, ctx.freq_start_hz, ctx.freq_end_hz, ratio)
        duty == RampDuty(ctx.duty_start, ctx.duty_end, ratio)
        step == (ctx.step_index + 1) % 6
        s1 == [s EXCEPT !.s_ramp_ctx.elapsed_us = Min(elapsed, ctx.ramp_time_us),
                        !.s_ramp_ctx.current_freq_hz = freq,
                        !.s_ramp_ctx.current_duty = duty,
                        !.s_ramp_ctx.step_index = step]
        \* the step applied is recorded beside the ramp
      s2 == [Inverter_SixStepCommutate(s1, step, duty, ctx.direction_cw) EXCEPT
               !.ramp_hist.applied = [step |-> step, cw |-> ctx.direction_cw]]
    IN drv_oneshot_start(s2, RampStepDelayUs(freq), "Motor_Ramp_OnStepEvent", "s_ramp_ctx")

\* a ramp whose completion leaves the inverter driving the last step
Motor_Ramp_OnStepEvent_KeepsDriving(s, user_context) ==
  LET ctx == s.s_ramp_ctx IN
  IF user_context = "NULL" \/ ~ctx.active THEN s
  ELSE
    LET elapsed == ctx.elapsed_us + RampStepDelayUs(ctx.current_freq_hz) IN
    IF elapsed >= ctx.ramp_time_us
    THEN [s EXCEPT !.s_ramp_ctx.elapsed_us = elapsed, !.s_ramp_ctx.active = FALSE]
    ELSE
      LET ratio == Min((elapsed * 1000) \div ctx.ramp_time_us, 1000)
          freq == RampFreqHz(ctx.profile_type, ctx.freq_start_hz, ctx.freq_end_hz, ratio)
          duty == RampDuty(ctx.duty_start, ctx.duty_end, ratio)
          step == (ctx.step_index + 1) % 6
          s1 == [s EXCEPT !.s_ramp_ctx.elapsed_us = elapsed,
                          !.s_ramp_ctx.current_freq_hz = freq,
                          !.s_ramp_ctx.current_duty = duty,
                          !.s_ramp_ctx.step_index = step]
          s2 == [Inverter_SixStepCommutate(s1, step, duty, ctx.direction_cw) EXCEPT
                   !.ramp_hist.applied = [step |-> step, cw |-> ctx.direction_cw]]
      IN drv_oneshot_start(s2, RampStepDelayUs(freq), "Motor_Ramp_OnStepEvent", "s_ramp_ctx")

Motor_Ramp_OnStepEvent(s, user_context) ==
  LET ctx == s.s_ramp_ctx IN
  IF user_context = "NULL" \/ ~ctx.active THEN s
  ELSE
    LET elapsed == ctx.elapsed_us + RampStepDelayUs(ctx.current_freq_hz) IN
    IF elapsed >= ctx.ramp_time_us
    THEN \* ramp complete; the call of on_complete is counted
         LET s1 == Driver_Disable([s EXCEPT !.s_ramp_ctx.elapsed_us = elapsed,
                                            !.s_ramp_ctx.active = FALSE])
         IN IF ctx.on_complete # "NULL"
            THEN [s1 EXCEPT !.ramp_hist.completions = Min(@ + 1, 2)]
            ELSE s1
    ELSE
      LET ratio == Min((elapsed * 1000) \div ctx.ramp_time_us, 1000)
          freq == RampFreqHz(ctx.profile_type, ctx.freq_start_hz, ctx.freq_end_hz, ratio)
          duty == RampDuty(ctx.duty_start, ctx.duty_end, ratio)
          step == (ctx.step_index + 1) % 6
          s1 == [s EXCEPT !.s_ramp_ctx.elapsed_us = elapsed,
                          !.s_ramp_ctx.current_freq_hz = freq,
                          !.s_ramp_ctx.current_duty = duty,
                          !.s_ramp_ctx.step_index = step]
          \* the step applied is recorded beside the ramp
          s2 == [Inverter_SixStepCommutate(s1, step, duty, ctx.direction_cw) EXCEPT
                   !.ramp_hist.applied = [step |-> step, cw |-> ctx.direction_cw]]
      IN drv_oneshot_start(s2, RampStepDelayUs(freq), "Motor_Ramp_OnStepEvent", "s_ramp_ctx")

Service_Motor_OpenLoopRamp_Stop_KeepsContext(s) ==
  LET s1 == IF drv_oneshot_isActive(s) THEN drv_oneshot_cancel(s) ELSE s
  IN Driver_Disable(s1)

Service_Motor_OpenLoopRamp_Stop(s) ==
  LET s1 == IF drv_oneshot_isActive(s) THEN drv_oneshot_cancel(s) ELSE s
      s2 == Driver_Disable(s1)
  IN [s2 EXCEPT !.s_ramp_ctx = RampZero]

\* cancels the pending event, leaves the inverter output engaged
Service_Motor_OpenLoopRamp_StopSoft(s) ==
  LET s1 == IF drv_oneshot_isActive(s) THEN drv_oneshot_cancel(s) ELSE s
  IN [s1 EXCEPT !.s_ramp_ctx.active = FALSE]

\* the hand-off read: step, duty and direction of the ramp
Service_Motor_OpenLoopRamp_GetState(s) ==
  [ step_index |-> s.s_ramp_ctx.step_index, duty |-> s.s_ramp_ctx.current_duty,
    direction_cw |-> s.s_ramp_ctx.direction_cw ]

\* schedules a callback on the one-shot timer
Service_ScheduleCommutation(s, delay_us, callback) ==
  drv_oneshot_start(s, delay_us, callback, "NULL")

\* disables the inverter and cancels timers
Service_Motor_Stop(s) == Service_Motor_OpenLoopRamp_Stop(s)

\* non-blocking alignment: A sources at duty, B sinks, C floats; the one-shot
\* timer ends it after duration_ms
Service_Motor_Align_Rotor(s, duty, duration_ms, on_alignment_done) ==
  LET d == Min(Max(duty, 0), DutyOne)
      s1 == Driver_SetOutputState(s, "A", "PWM_ACTIVE")
      s2 == Driver_SetOutputState(s1, "B", "PWM_ACTIVE")
      s3 == Driver_SetOutputState(s2, "C", "HIZ")
      s4 == Driver_SetAllDuties(s3, [A |-> d, B |-> 0, C |-> 0])
      s5 == [s4 EXCEPT !.s_align = on_alignment_done]
  IN drv_oneshot_start(s5, duration_ms * 1000, "Motor_Align_OnTimer", "NULL")

(***************************************************************************)
(* BEMF monitor (bemf_monitor.c)                                           *)
(***************************************************************************)
BemfStatusZero ==
  [zero_cross_detected |-> FALSE, period_us |-> 0, floating_phase |-> "A", valid |-> FALSE]

\* static initialisers followed by BEMF_Init.  s_last_zc_time_us holds the
\* parity of the number of writes to the timestamp: the microsecond counter
\* differs at any two writes, so the field changes exactly when it is written
BemfInit ==
  [ s_valid_streak |-> 0, s_invalid_streak |-> 0, s_locked |-> FALSE,
    s_last_period_us |-> 0, s_bootstrap |-> TRUE, s_bemf_status |-> BemfStatusZero,
    s_prev_bemf |-> 0, s_last_zc_time_us |-> 0, s_initialized |-> TRUE ]

\* s_last_zc_time_us = now_us
StampNow(t) == (t + 1) % 2

\* (V_f - V_n), scaled: 3 * (raw_f - mean(raw)) = 2 raw_f - raw_o1 - raw_o2
FloatingBemf(meas, floating_phase) ==
  3 * meas[floating_phase] - (meas.A + meas.B + meas.C)

\* sign change of the computed BEMF against s_prev_bemf
BEMF_ZeroCross(b, prev) == (b >= 0 /\ prev < 0) \/ (b < 0 /\ prev >= 0)

\* amplitude guard
BEMF_BelowAmplitude(b, prev) == Abs(b) < BEMF_MIN_AMPL /\ Abs(prev) < BEMF_MIN_AMPL

\* the monitor after a sign change the amplitude guard rejects
BEMF_NoiseZc_ClearsFlag(m, b) ==
  [m EXCEPT !.s_bemf_status.zero_cross_detected = FALSE, !.s_bemf_status.valid = FALSE,
            !.s_prev_bemf = b]

BEMF_NoiseZc(m, b) == [m EXCEPT !.s_prev_bemf = b]

\* the monitor after the first zero-crossing: baseline only
BEMF_BaselineZc_SetsFlag(m, b) ==
  [m EXCEPT !.s_last_zc_time_us = StampNow(@), !.s_bootstrap = FALSE,
            !.s_valid_streak = 0, !.s_invalid_streak = 0,
            !.s_bemf_status.zero_cross_detected = TRUE,
            !.s_bemf_status.valid = FALSE, !.s_prev_bemf = b]

BEMF_BaselineZc(m, b) ==
  [m EXCEPT !.s_last_zc_time_us = StampNow(@), !.s_bootstrap = FALSE,
            !.s_valid_streak = 0, !.s_invalid_streak = 0,
            !.s_bemf_status.zero_cross_detected = FALSE,
            !.s_bemf_status.valid = FALSE, !.s_prev_bemf = b]

\* raw period bounds
BEMF_PeriodOutOfBounds(period_us) ==
  period_us < BEMF_MIN_PERIOD_US \/ period_us > BEMF_MAX_PERIOD_US

\* the monitor after a zero-crossing whose period is out of bounds
BEMF_RejectZc_KeepsValidStreak(m, b) ==
  LET inv == IF m.s_invalid_streak < STREAK_MAX THEN m.s_invalid_streak + 1
             ELSE m.s_invalid_streak
      locked == IF m.s_locked /\ inv >= BEMF_UNLOCK_COUNT THEN FALSE ELSE m.s_locked
  IN [m EXCEPT !.s_invalid_streak = inv, !.s_locked = locked,
               !.s_bemf_status.zero_cross_detected = FALSE,
               !.s_bemf_status.valid = locked, !.s_prev_bemf = b]

BEMF_RejectZc_StampsTime(m, b) ==
  LET inv == IF m.s_invalid_streak < STREAK_MAX THEN m.s_invalid_streak + 1
             ELSE m.s_invalid_streak
      locked == IF m.s_locked /\ inv >= BEMF_UNLOCK_COUNT THEN FALSE ELSE m.s_locked
  IN [m EXCEPT !.s_invalid_streak = inv, !.s_valid_streak = 0, !.s_locked = locked,
               !.s_last_zc_time_us = StampNow(@),
               !.s_bemf_status.zero_cross_detected = FALSE,
               !.s_bemf_status.valid = locked, !.s_prev_bemf = b]

BEMF_RejectZc(m, b) ==
  LET inv == IF m.s_invalid_streak < STREAK_MAX THEN m.s_invalid_streak + 1
             ELSE m.s_invalid_streak
      locked == IF m.s_locked /\ inv >= BEMF_UNLOCK_COUNT THEN FALSE ELSE m.s_locked
  IN [m EXCEPT !.s_invalid_streak = inv, !.s_valid_streak = 0, !.s_locked = locked,
               !.s_bemf_status.zero_cross_detected = FALSE,
               !.s_bemf_status.valid = locked, !.s_prev_bemf = b]

\* the monitor after an accepted zero-crossing
BEMF_AcceptZc_KeepsInvalidStreak(m, b, floating_phase, period_us) ==
  LET filtered == IF m.s_last_period_us = 0 THEN period_us
                  ELSE (9 * m.s_last_period_us + period_us) \div 10
      streak == IF m.s_valid_streak < StreakSat THEN m.s_valid_streak + 1
                ELSE m.s_valid_streak
      locked == IF ~m.s_locked /\ streak >= BEMF_LOCK_COUNT THEN TRUE ELSE m.s_locked
  IN [m EXCEPT !.s_last_zc_time_us = StampNow(@),
               !.s_last_period_us = filtered,
               !.s_bemf_status = [zero_cross_detected |-> TRUE, period_us |-> filtered,
                                  floating_phase |-> floating_phase, valid |-> locked],
               !.s_valid_streak = streak, !.s_locked = locked, !.s_prev_bemf = b]

BEMF_AcceptZc(m, b, floating_phase, period_us) ==
  LET filtered == IF m.s_last_period_us = 0 THEN period_us
                  ELSE (9 * m.s_last_period_us + period_us) \div 10
      streak == IF m.s_valid_streak < StreakSat THEN m.s_valid_streak + 1
                ELSE m.s_valid_streak
      locked == IF ~m.s_locked /\ streak >= BEMF_LOCK_COUNT THEN TRUE ELSE m.s_locked
  IN [m EXCEPT !.s_last_zc_time_us = StampNow(@), !.s_invalid_streak = 0,
               !.s_last_period_us = filtered,
               !.s_bemf_status = [zero_cross_detected |-> TRUE, period_us |-> filtered,
                                  floating_phase |-> floating_phase, valid |-> locked],
               !.s_valid_streak = streak, !.s_locked = locked, !.s_prev_bemf = b]

BEMF_Process(s, floating_phase, meas, elapsed_us) ==
  LET m == s.bemf IN
  IF ~m.s_initialized \/ ~meas.ok THEN s
  ELSE
    LET b == FloatingBemf(meas, floating_phase) IN
    IF ~BEMF_ZeroCross(b, m.s_prev_bemf) THEN [s EXCEPT !.bemf.s_prev_bemf = b]
    ELSE IF BEMF_BelowAmplitude(b, m.s_prev_bemf) THEN [s EXCEPT !.bemf = BEMF_NoiseZc(m, b)]
    ELSE IF m.s_bootstrap THEN [s EXCEPT !.bemf = BEMF_BaselineZc(m, b)]
    ELSE IF BEMF_PeriodOutOfBounds(elapsed_us) THEN [s EXCEPT !.bemf = BEMF_RejectZc(m, b)]
    ELSE [s EXCEPT !.bemf = BEMF_AcceptZc(m, b, floating_phase, elapsed_us)]

BEMF_GetStatus(s) == s.bemf.s_bemf_status

BEMF_ClearFlag_Toggles(s) ==
  [s EXCEPT !.bemf.s_bemf_status.zero_cross_detected = ~@]

BEMF_ClearFlag_NoOp(s) == s

BEMF_ClearFlag(s) == [s EXCEPT !.bemf.s_bemf_status.zero_cross_detected = FALSE]

BEMF_Init(s) ==
  [s EXCEPT !.bemf = [s.bemf EXCEPT !.s_bemf_status = BemfStatusZero, !.s_prev_bemf = 0,
                                    !.s_last_zc_time_us = StampNow(@),
                                    !.s_initialized = TRUE]]

BEMF_Reset(s) ==
  [s EXCEPT !.bemf = [s.bemf EXCEPT !.s_bemf_status = BemfStatusZero, !.s_prev_bemf = 0,
                                    !.s_last_period_us = 0, !.s_valid_streak = 0,
                                    !.s_last_zc_time_us = StampNow(@),
                                    !.s_invalid_streak = 0, !.s_locked = FALSE,
                                    !.s_bootstrap = TRUE]]

(***************************************************************************)
(* Speed PID (service_pid.c)                                               *)
(***************************************************************************)
\* Service_PID_Init followed by the limits Control_Motor_Init sets
PidInit ==
  [ kp |-> PID_KP, ki_dt |-> PID_KI_DT, kd |-> PID_KD, integrator |-> 0, prev_error |-> 0,
    output |-> 0, out_min |-> PID_OUT_MIN, out_max |-> PID_OUT_MAX,
    integrator_limit |-> PID_INTEGRATOR_LIMIT ]

Service_PID_Update_NoLowerClamp(pid, setpoint, measurement) ==
  LET error == setpoint - measurement
      i0 == pid.integrator + pid.ki_dt * error
      i1 == IF i0 > pid.integrator_limit THEN pid.integrator_limit
            ELSE IF i0 < -pid.integrator_limit THEN -pid.integrator_limit
            ELSE i0
      derivative == (error - pid.prev_error) * 1000
      raw == pid.kp * error + i1 + pid.kd * derivative
      output == IF raw > pid.out_max THEN pid.out_max ELSE raw
  IN [pid EXCEPT !.integrator = i1, !.prev_error = error, !.output = output]

Service_PID_Update_NoIntegratorClamp(pid, setpoint, measurement) ==
  LET error == setpoint - measurement
      i1 == pid.integrator + pid.ki_dt * error
      derivative == (error - pid.prev_error) * 1000
      raw == pid.kp * error + i1 + pid.kd * derivative
      output == IF raw > pid.out_max THEN pid.out_max
                ELSE IF raw < pid.out_min THEN pid.out_min
                ELSE raw
  IN [pid EXCEPT !.integrator = i1, !.prev_error = error, !.output = output]

Service_PID_Update(pid, setpoint, measurement) ==
  LET error == setpoint - measurement
      i0 == pid.integrator + pid.ki_dt * error
      i1 == IF i0 > pid.integrator_limit THEN pid.integrator_limit
            ELSE IF i0 < -pid.integrator_limit THEN -pid.integrator_limit
            ELSE i0
      \* (error - prev_error) / dt with dt = 0.001
      derivative == (error - pid.prev_error) * 1000
      raw == pid.kp * error + i1 + pid.kd * derivative
      output == IF raw > pid.out_max THEN pid.out_max
                ELSE IF raw < pid.out_min THEN pid.out_min
                ELSE raw
  IN [pid EXCEPT !.integrator = i1, !.prev_error = error, !.output = output]

(***************************************************************************)
(* Commutation state machine (control_six_step.c)                          *)
(***************************************************************************)
\* static initialiser s_ctx = { .direction_cw = true, .duty = 0.3f }
CtxInit ==
  [ step |-> 0, direction_cw |-> TRUE, duty |-> 300000, comm_armed |-> FALSE,
    transition_scheduled |-> FALSE, handover_armed |-> FALSE ]

\* memset(&s_ctx, 0, sizeof(s_ctx))
CtxZero ==
  [ step |-> 0, direction_cw |-> FALSE, duty |-> 0, comm_armed |-> FALSE,
    transition_scheduled |-> FALSE, handover_armed |-> FALSE ]

\* (1e6f / (6.0f * period_us)) * 60.0f / MOTOR_POLE_PAIRS
RpmOfPeriod(period_us) ==
  IF period_us = 0 THEN RPM_INF ELSE (60 * 1000000) \div (6 * period_us * MOTOR_POLE_PAIRS)

\* fminf(fmaxf(period_us * COMM_LEAD_FACTOR, COMM_DELAY_MIN_US), COMM_DELAY_MAX_US)
CommDelayUs(period_us) ==
  Min(Max((period_us * COMM_LEAD_FACTOR) \div 100, COMM_DELAY_MIN_US), COMM_DELAY_MAX_US)

\* 1e6f / (6.0f * period_us) >= CL_ENTER_SPEED_HZ
SpeedAtLeastEnter(period_us) == 6 * period_us * CL_ENTER_SPEED_HZ <= 1000000

Motor_ClosedLoop_Commutate_StopsOnInvalid(s) ==
  IF ~s.s_bemf_status.valid
  THEN [Service_Motor_Stop(s) EXCEPT !.s_motor_mode = "STOPPED"]
  ELSE
    LET step == (s.s_ctx.step + 1) % 6
        s1 == [s EXCEPT !.s_ctx.comm_armed = FALSE, !.s_ctx.step = step]
        s2 == Inverter_SixStepCommutate(s1, step, s1.s_ctx.duty, s1.s_ctx.direction_cw)
    IN [s2 EXCEPT !.s_floating_phase = Motor_GetFloatingPhase(step, s2.s_ctx.direction_cw)]

Motor_ClosedLoop_Commutate(s) ==
  LET step == (s.s_ctx.step + 1) % 6
      s1 == [s EXCEPT !.s_ctx.comm_armed = FALSE, !.s_ctx.step = step]
      s2 == Inverter_SixStepCommutate(s1, step, s1.s_ctx.duty, s1.s_ctx.direction_cw)
  IN [s2 EXCEPT !.s_floating_phase = Motor_GetFloatingPhase(step, s2.s_ctx.direction_cw)]

Motor_Transition_Commutate_NoStopSoft(s) ==
  LET step == (s.s_ctx.step + 1) % 6
      s1 == [s EXCEPT !.s_ctx.transition_scheduled = FALSE, !.s_ctx.handover_armed = FALSE,
                      !.s_ctx.step = step]
      s2 == Inverter_SixStepCommutate(s1, step, s1.s_ctx.duty, s1.s_ctx.direction_cw)
      s3 == [s2 EXCEPT !.s_floating_phase = Motor_GetFloatingPhase(step, s2.s_ctx.direction_cw),
                       !.s_motor_mode = "CLOSED_LOOP",
                       !.s_ctx.comm_armed = FALSE]
      rpm == RpmOfPeriod(s3.s_bemf_status.period_us)
      s5 == [s3 EXCEPT !.s_speed.measured = rpm, !.s_speed.target = rpm]
  IN IF s5.s_bemf_status.valid /\ ~s5.s_ctx.comm_armed
     THEN LET s6 == Service_ScheduleCommutation(s5, CommDelayUs(s5.s_bemf_status.period_us),
                                                "Motor_ClosedLoop_Commutate")
          IN [s6 EXCEPT !.s_ctx.comm_armed = TRUE]
     ELSE s5

Motor_Transition_Commutate(s) ==
  LET step == (s.s_ctx.step + 1) % 6
      s1 == [s EXCEPT !.s_ctx.transition_scheduled = FALSE, !.s_ctx.handover_armed = FALSE,
                      !.s_ctx.step = step]
      s2 == Inverter_SixStepCommutate(s1, step, s1.s_ctx.duty, s1.s_ctx.direction_cw)
      s3 == [s2 EXCEPT !.s_floating_phase = Motor_GetFloatingPhase(step, s2.s_ctx.direction_cw),
                       !.s_motor_mode = "CLOSED_LOOP",
                       !.s_ctx.comm_armed = FALSE]
      s4 == Service_Motor_OpenLoopRamp_StopSoft(s3)
      rpm == RpmOfPeriod(s4.s_bemf_status.period_us)
      s5 == [s4 EXCEPT !.s_speed.measured = rpm, !.s_speed.target = rpm]
  IN IF s5.s_bemf_status.valid /\ ~s5.s_ctx.comm_armed
     THEN LET s6 == Service_ScheduleCommutation(s5, CommDelayUs(s5.s_bemf_status.period_us),
                                                "Motor_ClosedLoop_Commutate")
          IN [s6 EXCEPT !.s_ctx.comm_armed = TRUE]
     ELSE s5

\* condition of the closed-loop branch of Motor_FastLoop, its two ifs taken together
ClosedLoopGuard_NoArmedCheck(s, st) ==
  /\ s.s_motor_mode = "CLOSED_LOOP" /\ st.valid
  /\ st.floating_phase = s.s_floating_phase

\* the closed-loop branch entered in whatever mode
ClosedLoopGuard_AnyMode(s, st) ==
  /\ st.valid
  /\ st.floating_phase = s.s_floating_phase /\ ~s.s_ctx.comm_armed

ClosedLoopGuard(s, st) ==
  /\ s.s_motor_mode = "CLOSED_LOOP" /\ st.valid
  /\ st.floating_phase = s.s_floating_phase /\ ~s.s_ctx.comm_armed

\* condition of the handover branch of Motor_FastLoop
HandoverGuard_NoScheduledCheck(s, st) ==
  s.s_motor_mode = "OPEN_LOOP" /\ st.valid

HandoverGuard(s, st) ==
  s.s_motor_mode = "OPEN_LOOP" /\ st.valid /\ ~s.s_ctx.transition_scheduled

Motor_FastLoop(s0, meas, elapsed_us, age) ==
  LET ramp == Service_Motor_OpenLoopRamp_GetState(s0)
      s1 == IF s0.s_motor_mode = "OPEN_LOOP"
            THEN [s0 EXCEPT !.s_floating_phase =
                               Motor_GetFloatingPhase(ramp.step_index, ramp.direction_cw)]
            ELSE s0
      s2 == BEMF_Process(s1, s1.s_floating_phase, meas, elapsed_us)
      s3 == [s2 EXCEPT !.s_bemf_status = BEMF_GetStatus(s2)]
      st == s3.s_bemf_status
  IN
  IF ~st.zero_cross_detected THEN s3
  ELSE
    LET s4 == s3
        \* now_us - get_last_zc_time_us()
        age_us == age
        s5 == IF ClosedLoopGuard(s4, st)
              THEN LET a == Service_ScheduleCommutation(s4, CommDelayUs(st.period_us),
                                                        "Motor_ClosedLoop_Commutate")
                   IN [a EXCEPT !.s_ctx.comm_armed = TRUE]
              ELSE s4
        s6 == IF HandoverGuard(s5, st) /\ SpeedAtLeastEnter(st.period_us)
              THEN
                LET n == IF st.floating_phase = s5.s_floating_phase
                         THEN s5.s_valid_zc_count + 1 ELSE 0
                    a == [s5 EXCEPT !.s_valid_zc_count = n]
                IN
                IF n >= CL_MIN_VALID_ZC
                THEN
                  LET r == Service_Motor_OpenLoopRamp_GetState(a)
                      b == [a EXCEPT !.s_ctx.step = r.step_index,
                                     !.s_ctx.duty = Max(r.duty, CL_MIN_DUTY_TRANSITION),
                                     !.s_ctx.direction_cw = r.direction_cw]
                      \* t_comm_us = period_us * COMM_LEAD_FACTOR - age_us, in hundredths
                      t_comm_100 == st.period_us * COMM_LEAD_FACTOR - 100 * age_us
                      c == IF t_comm_100 < 100 * COMM_DELAY_MIN_US
                           THEN Motor_Transition_Commutate(b)
                           ELSE LET d == Service_ScheduleCommutation(
                                           b, t_comm_100 \div 100, "Motor_Transition_Commutate")
                                IN [d EXCEPT !.s_ctx.transition_scheduled = TRUE,
                                             !.s_ctx.handover_armed = TRUE]
                  IN [c EXCEPT !.s_valid_zc_count = 0]
                ELSE a
              ELSE s5
    IN BEMF_ClearFlag(s6)

Motor_StartOpenLoopRamp_NoReset(s) ==
  LET s2 == [s EXCEPT !.s_motor_mode = "OPEN_LOOP",
                      !.s_valid_zc_count = 0,
                      !.s_ctx.transition_scheduled = FALSE,
                      !.s_ctx.handover_armed = FALSE,
                      !.s_ctx.comm_armed = FALSE]
  IN Service_Motor_OpenLoopRamp_Start(s2, OL_DUTY_START, OL_DUTY_END, OL_FREQ_START_HZ,
                                      OL_FREQ_END_HZ, RampTimeMs, s2.s_ctx.direction_cw,
                                      "EXPONENTIAL", "NULL")

Motor_StartOpenLoopRamp(s) ==
  LET s1 == BEMF_Reset(s)
      s2 == [s1 EXCEPT !.s_motor_mode = "OPEN_LOOP",
                       !.s_valid_zc_count = 0,
                       !.s_ctx.transition_scheduled = FALSE,
                       !.s_ctx.handover_armed = FALSE,
                       !.s_ctx.comm_armed = FALSE]
  IN Service_Motor_OpenLoopRamp_Start(s2, OL_DUTY_START, OL_DUTY_END, OL_FREQ_START_HZ,
                                      OL_FREQ_END_HZ, RampTimeMs, s2.s_ctx.direction_cw,
                                      "EXPONENTIAL", "NULL")

\* end of the alignment interval: inverter disabled, completion callback invoked
Motor_Align_OnTimer(s) ==
  LET s1 == Driver_Disable(s)
      cb == s1.s_align
      s2 == [s1 EXCEPT !.s_align = "NULL"]
  IN IF cb = "Motor_StartOpenLoopRamp" THEN Motor_StartOpenLoopRamp(s2) ELSE s2

Motor_LowLoop_NoSlopeLimit(s0) ==
  LET st == s0.s_bemf_status
      s1 == IF st.valid /\ st.period_us > 0
            THEN [s0 EXCEPT !.s_speed.measured = RpmOfPeriod(st.period_us)]
            ELSE s0
      delta == s1.s_speed.commanded - s1.s_speed.target
      s2 == IF s1.s_motor_mode = "CLOSED_LOOP"
            THEN [s1 EXCEPT !.s_speed.target = @ + delta]
            ELSE [s1 EXCEPT !.s_speed.target = 0]
      s3 == IF s2.s_motor_mode = "CLOSED_LOOP" /\ st.valid
            THEN LET pid == Service_PID_Update(s2.speed_pid, s2.s_speed.target,
                                               s2.s_speed.measured)
                 IN [s2 EXCEPT !.speed_pid = pid, !.s_ctx.duty = pid.output]
            ELSE s2
  IN IF s3.s_reverse_pending /\ s3.s_speed.measured < REVERSE_SPEED_RPM
     THEN LET a == [s3 EXCEPT !.s_reverse_pending = FALSE,
                              !.s_ctx.direction_cw = ~s3.s_ctx.direction_cw]
              b == Service_Motor_Stop(a)
              c == [b EXCEPT !.s_motor_mode = "STOPPED",
                             !.s_speed.commanded = b.s_speed.buffer]
          IN Service_Motor_Align_Rotor(c, ALIGN_DUTY, ALIGN_DURATION_MS,
                                       "Motor_StartOpenLoopRamp")
     ELSE s3

Motor_LowLoop_AppliesDuty(s0) ==
  LET st == s0.s_bemf_status
      s1 == IF st.valid /\ st.period_us > 0
            THEN [s0 EXCEPT !.s_speed.measured = RpmOfPeriod(st.period_us)]
            ELSE s0
      delta == Min(Max(s1.s_speed.commanded - s1.s_speed.target, -s1.s_speed.slope),
                   s1.s_speed.slope)
      s2 == IF s1.s_motor_mode = "CLOSED_LOOP"
            THEN [s1 EXCEPT !.s_speed.target = @ + delta]
            ELSE [s1 EXCEPT !.s_speed.target = 0]
      s3 == IF s2.s_motor_mode = "CLOSED_LOOP" /\ st.valid
            THEN LET pid == Service_PID_Update(s2.speed_pid, s2.s_speed.target,
                                               s2.s_speed.measured)
                 IN Inverter_SixStepCommutate(
                      [s2 EXCEPT !.speed_pid = pid, !.s_ctx.duty = pid.output],
                      s2.s_ctx.step, pid.output, s2.s_ctx.direction_cw)
            ELSE s2
  IN IF s3.s_reverse_pending /\ s3.s_speed.measured < REVERSE_SPEED_RPM
     THEN LET a == [s3 EXCEPT !.s_reverse_pending = FALSE,
                              !.s_ctx.direction_cw = ~s3.s_ctx.direction_cw]
              b == Service_Motor_Stop(a)
              c == [b EXCEPT !.s_motor_mode = "STOPPED",
                             !.s_speed.commanded = b.s_speed.buffer]
          IN Service_Motor_Align_Rotor(c, ALIGN_DUTY, ALIGN_DURATION_MS,
                                       "Motor_StartOpenLoopRamp")
     ELSE s3

Motor_LowLoop(s0) ==
  LET st == s0.s_bemf_status
      s1 == IF st.valid /\ st.period_us > 0
            THEN [s0 EXCEPT !.s_speed.measured = RpmOfPeriod(st.period_us)]
            ELSE s0
      delta == Min(Max(s1.s_speed.commanded - s1.s_speed.target, -s1.s_speed.slope),
                   s1.s_speed.slope)
      s2 == IF s1.s_motor_mode = "CLOSED_LOOP"
            THEN [s1 EXCEPT !.s_speed.target = @ + delta]
            ELSE [s1 EXCEPT !.s_speed.target = 0]
      s3 == IF s2.s_motor_mode = "CLOSED_LOOP" /\ st.valid
            THEN LET pid == Service_PID_Update(s2.speed_pid, s2.s_speed.target,
                                               s2.s_speed.measured)
                 IN [s2 EXCEPT !.speed_pid = pid, !.s_ctx.duty = pid.output]
            ELSE s2
  IN IF s3.s_reverse_pending /\ s3.s_speed.measured < REVERSE_SPEED_RPM
     THEN LET a == [s3 EXCEPT !.s_reverse_pending = FALSE,
                              !.s_ctx.direction_cw = ~s3.s_ctx.direction_cw]
              b == Service_Motor_Stop(a)
              c == [b EXCEPT !.s_motor_mode = "STOPPED",
                             !.s_speed.commanded = b.s_speed.buffer]
          IN Service_Motor_Align_Rotor(c, ALIGN_DUTY, ALIGN_DURATION_MS,
                                       "Motor_StartOpenLoopRamp")
     ELSE s3

Control_Motor_SetSpeed_RPM_FlipsAtOnce(s, rpm) ==
  LET new_dir_cw == rpm >= 0
      target_rpm == Abs(rpm)
  IN
  IF s.s_motor_mode = "STOPPED"
  THEN Service_Motor_Align_Rotor([s EXCEPT !.s_ctx.direction_cw = new_dir_cw,
                                           !.s_speed.commanded = target_rpm],
                                 ALIGN_DUTY, ALIGN_DURATION_MS, "Motor_StartOpenLoopRamp")
  ELSE IF s.s_ctx.direction_cw # new_dir_cw /\ s.s_motor_mode # "STOPPED"
  THEN [s EXCEPT !.s_speed.commanded = 0, !.s_speed.buffer = target_rpm,
                 !.s_reverse_pending = TRUE, !.s_ctx.direction_cw = new_dir_cw]
  ELSE IF s.s_motor_mode = "OPEN_LOOP" \/ s.s_motor_mode = "CLOSED_LOOP"
  THEN [s EXCEPT !.s_speed.commanded = target_rpm]
  ELSE s

\* a speed command in the current direction that withdraws a pending reversal
Control_Motor_SetSpeed_RPM_CancelsReversal(s, rpm) ==
  LET new_dir_cw == rpm >= 0
      target_rpm == Abs(rpm)
  IN
  IF s.s_motor_mode = "STOPPED"
  THEN Service_Motor_Align_Rotor([s EXCEPT !.s_ctx.direction_cw = new_dir_cw,
                                           !.s_speed.commanded = target_rpm],
                                 ALIGN_DUTY, ALIGN_DURATION_MS, "Motor_StartOpenLoopRamp")
  ELSE IF s.s_ctx.direction_cw # new_dir_cw /\ s.s_motor_mode # "STOPPED"
  THEN [s EXCEPT !.s_speed.commanded = 0, !.s_speed.buffer = target_rpm,
                 !.s_reverse_pending = TRUE]
  ELSE IF s.s_motor_mode = "OPEN_LOOP" \/ s.s_motor_mode = "CLOSED_LOOP"
  THEN [s EXCEPT !.s_speed.commanded = target_rpm, !.s_reverse_pending = FALSE]
  ELSE s

Control_Motor_SetSpeed_RPM(s, rpm) ==
  LET new_dir_cw == rpm >= 0
      target_rpm == Abs(rpm)
  IN
  IF s.s_motor_mode = "STOPPED"
  THEN Service_Motor_Align_Rotor([s EXCEPT !.s_ctx.direction_cw = new_dir_cw,
                                           !.s_speed.commanded = target_rpm],
                                 ALIGN_DUTY, ALIGN_DURATION_MS, "Motor_StartOpenLoopRamp")
  ELSE IF s.s_ctx.direction_cw # new_dir_cw /\ s.s_motor_mode # "STOPPED"
  THEN [s EXCEPT !.s_speed.commanded = 0, !.s_speed.buffer = target_rpm,
                 !.s_reverse_pending = TRUE]
  ELSE IF s.s_motor_mode = "OPEN_LOOP" \/ s.s_motor_mode = "CLOSED_LOOP"
  THEN [s EXCEPT !.s_speed.commanded = target_rpm]
  ELSE s

\* fminf(fmaxf(rpm_per_ms, 1.0f), 500.0f)
Control_Motor_SetRampSlope(s, rpm_per_ms) ==
  [s EXCEPT !.s_speed.slope = Min(Max(rpm_per_ms, 1), 500)]

\* Control_Motor_Stop, one operator per statement group of the main context
Control_Motor_Stop_Service(s) ==
  Service_Motor_Stop([s EXCEPT !.s_speed.commanded = 0])

Control_Motor_Stop_ClearCtx(s) == [s EXCEPT !.s_ctx = CtxZero]

Control_Motor_Stop_SetMode(s) ==
  [s EXCEPT !.s_motor_mode = "STOPPED", !.s_speed.target = 0, !.s_speed.measured = 0]

\* ISR entry of the one-shot timer: snapshot, clear, stop the counter, call back
Driver_OneShot_OnTimerExpired(s) ==
  LET user_cb == s.s_timerContext.callback
      user_ctx == s.s_timerContext.user_context
      s1 == [s EXCEPT !.s_timerContext =
                [@ EXCEPT !.is_active = FALSE, !.callback = "NULL",
                          !.user_context = "NULL", !.hw_enabled = FALSE]]
  IN CASE user_cb = "Motor_Ramp_OnStepEvent" -> Motor_Ramp_OnStepEvent(s1, user_ctx)
       [] user_cb = "Motor_ClosedLoop_Commutate" -> Motor_ClosedLoop_Commutate(s1)
       [] user_cb = "Motor_Transition_Commutate" -> Motor_Transition_Commutate(s1)
       [] user_cb = "Motor_Align_OnTimer" -> Motor_Align_OnTimer(s1)
       [] OTHER -> s1

(***************************************************************************)
(* Record of the calls of BEMF_Process, kept beside the monitor: what each  *)
(* call was given, told from its arguments and from the calls before it.   *)
(***************************************************************************)
ZcHistInit ==
  [ accepted |-> 0,        \* in-bounds crossings since the last rejected one
    rejected |-> 0,        \* out-of-bounds crossings since the last accepted one
    passed |-> 0,          \* crossings above the noise floor since the reset (0, 1, 2 = more)
    prev |-> [p \in Phases |-> "none"],   \* sign of the last sample of each phase
    own_change |-> FALSE,  \* the sample differs in sign from the last one of its phase
    since |-> 0,           \* microseconds since s_last_zc_time_us was written, where
                           \* the run follows the clock
    class |-> "init" ]

SignOf(b) == IF b >= 0 THEN "nonneg" ELSE "neg"

ZcClass(h, m, b, elapsed_us) ==
  IF ~BEMF_ZeroCross(b, m.s_prev_bemf) THEN "no_zc"
  ELSE IF BEMF_BelowAmplitude(b, m.s_prev_bemf) THEN "noise"
  ELSE IF h.passed = 0 THEN "baseline"
  ELSE IF BEMF_PeriodOutOfBounds(elapsed_us) THEN "rejected"
  ELSE "accepted"

ZcObserve(h, m, floating_phase, meas, elapsed_us) ==
  IF ~m.s_initialized \/ ~meas.ok THEN [h EXCEPT !.class = "no_sample", !.own_change = FALSE]
  ELSE
    LET b == FloatingBemf(meas, floating_phase)
        class == ZcClass(h, m, b, elapsed_us)
    IN [h EXCEPT !.class = class,
                 !.own_change = h.prev[floating_phase] # SignOf(b),
                 !.prev[floating_phase] = SignOf(b),
                 !.passed = IF class \in {"baseline", "rejected", "accepted"}
                            THEN Min(@ + 1, 2) ELSE @,
                 !.accepted = CASE class = "accepted" -> Min(@ + 1, BEMF_LOCK_COUNT)
                                [] class = "rejected" -> 0
                                [] OTHER -> @,
                 !.rejected = CASE class = "rejected" -> Min(@ + 1, MaxRejects)
                                [] class = "accepted" -> 0
                                [] OTHER -> @]

ZcObserveReset(h) == [ZcHistInit EXCEPT !.class = "reset"]

(***************************************************************************)
(* Measurement channel (adc callbacks, driver_invertor.c)                  *)
(*                                                                         *)
(* A sample set is represented by the number of the conversion that        *)
(* produced it, each field of the buffer by the number of the conversion   *)
(* that wrote it last.  The fetch copies field by field.                   *)
(***************************************************************************)
\* the fields HAL_ADCEx_InjectedConvCpltCallback stores, in its order
Fields == << "i_a_raw", "i_b_raw", "v_phase_a_raw", "v_phase_b_raw", "v_phase_c_raw" >>
FieldNames == {Fields[i] : i \in 1..Len(Fields)}

\* the callers of get_latest_measurements: the debug command handler in the
\* main context, and BEMF_Process in the fast loop
Callers == {"main", "fast"}

AdcInit ==
  [ buffer |-> [f \in FieldNames |-> 0],      \* adc_motor_measurement_buffer
    is_new_data_ready |-> FALSE,
    isr |-> [pc |-> "idle", k |-> 1, conv |-> 0],
    fetch |-> [c \in Callers |-> [pc |-> "idle", k |-> 1,
                                  meas |-> [f \in FieldNames |-> 0]]],
    running |-> << >>,                        \* contexts entered, innermost last
    prio |-> "unknown" ]                      \* the interrupt seen to preempt the other

\* the innermost context
Top(a) == IF a.running = << >> THEN "none" ELSE a.running[Len(a.running)]

\* context h may take its next step: it is the innermost one
Runs(a, h) == Top(a) = h

\* context h may be entered.  The main context starts when nothing runs.  An
\* interrupt handler starts when nothing runs, preempts the main context, and
\* preempts the other handler unless that one has been seen to preempt it.
MayEnter(a, h) ==
  IF h = "main" THEN a.running = << >>
  ELSE /\ \A i \in 1..Len(a.running) : a.running[i] # h
       /\ \/ Top(a) \in {"none", "main"}
          \/ a.prio \in {"unknown", h}

Enter(a, h) ==
  [a EXCEPT !.running = Append(@, h),
            !.prio = IF Top(a) \notin {"none", "main"} THEN h ELSE @]

Leave(a) == [a EXCEPT !.running = SubSeq(@, 1, Len(@) - 1)]

\* HAL_ADCEx_InjectedConvCpltCallback: entry, reads and filters
Adc_Isr_Enter(s) ==
  LET conv == s.adc_hist.started + 1
  IN [s EXCEPT !.adc = [Enter(s.adc, "adc") EXCEPT !.isr = [pc |-> "store", k |-> 1,
                                                          conv |-> conv]],
               !.adc_hist.started = conv,
               !.adc_hist.preempted = @ \/ s.adc.running # << >>]

\* one store into adc_motor_measurement_buffer
Adc_Isr_Store(s) ==
  LET k == s.adc.isr.k
  IN [s EXCEPT !.adc.buffer[Fields[k]] = s.adc.isr.conv,
               !.adc.isr.k = k + 1,
               !.adc.isr.pc = IF k = Len(Fields) THEN "notify" ELSE "store"]

\* adc_notify_new_data_ready and return
Adc_Isr_Notify(s) ==
  [s EXCEPT !.adc = [Leave(s.adc) EXCEPT !.is_new_data_ready = TRUE,
                                         !.isr = [pc |-> "idle", k |-> 1, conv |-> 0]],
            !.adc_hist.published = s.adc.isr.conv]

\* get_latest_measurements_impl called by c: the test of the flag
Fetch_Test(s, c) ==
  IF ~s.adc.is_new_data_ready THEN s
  ELSE [s EXCEPT !.adc = [Enter(s.adc, c) EXCEPT !.fetch[c].pc = "copy",
                                                 !.fetch[c].k = 1],
                 !.adc_hist.preempted = @ \/ s.adc.running # << >>]

\* memcpy, one field
Fetch_Copy(s, c) ==
  LET k == s.adc.fetch[c].k
  IN [s EXCEPT !.adc.fetch[c].meas[Fields[k]] = s.adc.buffer[Fields[k]],
               !.adc.fetch[c].k = k + 1,
               !.adc.fetch[c].pc = IF k = Len(Fields) THEN "clear" ELSE "copy"]

\* is_new_data_ready = false; return true
Fetch_Clear(s, c) ==
  [s EXCEPT !.adc = [Leave(s.adc) EXCEPT !.is_new_data_ready = FALSE,
                                         !.fetch[c].pc = "idle", !.fetch[c].k = 1],
            !.adc_hist.returned = @ \cup {s.adc.fetch[c].meas[Fields[1]]}]

(***************************************************************************)
(* Initial state: after Services_Init and Control_Motor_Init               *)
(***************************************************************************)
Init ==
  /\ s_motor_mode = "STOPPED"
  /\ s_ctx = CtxInit
  /\ s_floating_phase = "A"
  /\ s_bemf_status = BemfStatusZero
  /\ s_speed = [measured |-> 0, target |-> 0, commanded |-> 0, buffer |-> 0,
                slope |-> DEFAULT_RAMP_SLOPE_RPM_MS]
  /\ speed_pid = PidInit
  /\ s_valid_zc_count = 0
  /\ s_reverse_pending = FALSE
  /\ bemf = BemfInit
  /\ s_ramp_ctx = RampZero
  /\ s_align = "NULL"
  /\ s_timerContext = TimerInit
  /\ inverter = InverterInit
  /\ stop_pc = "idle"
  /\ ramp_starts = 0
  /\ stop_returned = FALSE
  /\ adc = AdcInit
  /\ zc_hist = ZcHistInit
  /\ ramp_pc = "idle"
  /\ ramp_hist = [last |-> "init", completions |-> 0, displaced |-> "NULL",
                  stopped |-> FALSE, applied |-> [step |-> 0, cw |-> FALSE]]
  /\ adc_hist = [started |-> 0, published |-> 0, returned |-> {}, preempted |-> FALSE]

(***************************************************************************)
(* Steps                                                                   *)
(***************************************************************************)
\* fast-loop timer interrupt (24 kHz): one Motor_FastLoop cycle
FastLoopTick ==
  \E meas \in Samples \cup {NoSample}, elapsed_us \in Periods, age \in Ages :
    Becomes(Motor_FastLoop(Cur, meas, elapsed_us, age))

\* low-loop timer interrupt (1 kHz): one Motor_LowLoop cycle
LowLoopTick ==
  LET s == Motor_LowLoop(Cur)
  IN /\ Abs(s.speed_pid.integrator) <= MaxIntegrator
     /\ Becomes(s)

\* one-shot timer interrupt
OneShotExpired ==
  LET ramp_start == /\ s_timerContext.callback = "Motor_Align_OnTimer"
                    /\ s_align = "Motor_StartOpenLoopRamp"
  IN /\ s_timerContext.hw_enabled
     /\ ramp_start => ramp_starts < MaxStarts
     /\ Becomes([Driver_OneShot_OnTimerExpired(Cur) EXCEPT
                   !.ramp_starts = IF ramp_start THEN @ + 1 ELSE @])

\* command surface, main context
SetSpeedCommand(rpm) ==
  /\ stop_pc = "idle"
  /\ Becomes([Control_Motor_SetSpeed_RPM(Cur, rpm) EXCEPT !.stop_returned = FALSE])

SetSpeed == \E rpm \in RpmCommands : SetSpeedCommand(rpm)

StopService ==
  /\ stop_pc = "idle"
  /\ Becomes([Control_Motor_Stop_Service(Cur) EXCEPT !.stop_pc = "service_done"])

StopClearCtx ==
  /\ stop_pc = "service_done"
  /\ Becomes([Control_Motor_Stop_ClearCtx(Cur) EXCEPT !.stop_pc = "ctx_cleared"])

StopSetMode ==
  /\ stop_pc = "ctx_cleared"
  /\ Becomes([Control_Motor_Stop_SetMode(Cur) EXCEPT !.stop_pc = "idle",
                                                     !.stop_returned = TRUE])

\* fault notification and fault clear of the inverter interface
NotifyFault ==
  /\ inverter.status.fault = "NONE"
  /\ \E f \in Faults : Becomes(Driver_NotifyFault(Cur, f))

ClearFaults ==
  /\ inverter.status.fault # "NONE"
  /\ Becomes(Driver_ClearFaults(Cur))

Next ==
  \/ FastLoopTick
  \/ LowLoopTick
  \/ OneShotExpired
  \/ SetSpeed
  \/ StopService
  \/ StopClearCtx
  \/ StopSetMode

Spec == Init /\ [][Next]_vars

\* speed commands and interrupts with an external notifier of hardware faults
NextFault ==
  \/ FastLoopTick
  \/ LowLoopTick
  \/ OneShotExpired
  \/ SetSpeed
  \/ NotifyFault
  \/ ClearFaults

SpecFault == Init /\ [][NextFault]_vars

\* a run in one direction whose BEMF signal degrades once the motor runs in
\* closed loop: no stop command, no reversal, no fault
DegradedFastLoopTick ==
  \E meas \in Samples \cup {NoSample}, age \in Ages,
     elapsed_us \in IF s_motor_mode = "CLOSED_LOOP" THEN DegradedPeriods ELSE Periods :
    /\ Becomes(Motor_FastLoop(Cur, meas, elapsed_us, age))
    /\ bemf'.s_invalid_streak <= MaxRejects

SetSpeedForward == \E rpm \in ForwardRpmCommands : SetSpeedCommand(rpm)

NextDegraded ==
  \/ DegradedFastLoopTick
  \/ LowLoopTick
  \/ OneShotExpired
  \/ SetSpeedForward

SpecDegraded == Init /\ [][NextDegraded]_vars

\* the same run with the ramp slope set from the command surface, once, at
\* any point of the run
SetRampSlope ==
  /\ stop_pc = "idle"
  /\ s_speed.slope = DEFAULT_RAMP_SLOPE_RPM_MS
  /\ \E rpm_per_ms \in SlopeArgs : Becomes(Control_Motor_SetRampSlope(Cur, rpm_per_ms))

SetSpeedSlope == \E rpm \in SlopeRpmCommands : SetSpeedCommand(rpm)

NextSlope ==
  \/ DegradedFastLoopTick
  \/ LowLoopTick
  \/ OneShotExpired
  \/ SetSpeedSlope
  \/ SetRampSlope

SpecSlope == Init /\ [][NextSlope]_vars

\* the PID controller on its own: configured as Control_Motor_Init does
\* (Service_PID_Init, then the limits), updated with any inputs
PidConfigure ==
  \E c \in PidConfigs :
    Becomes([Cur EXCEPT !.speed_pid =
               [PidInit EXCEPT !.kp = c.kp, !.ki_dt = c.ki_dt, !.kd = c.kd,
                               !.out_min = c.out_min, !.out_max = c.out_max,
                               !.integrator_limit = c.integrator_limit]])

PidUpdate ==
  \E setpoint \in PidInputs, measurement \in PidInputs :
    Becomes([Cur EXCEPT !.speed_pid = Service_PID_Update(speed_pid, setpoint, measurement)])

NextPid == PidConfigure \/ PidUpdate

SpecPid == Init /\ [][NextPid]_vars

\* the command surface with the speed command 0 beside the signed ones,
\* against the fast loop, the low loop and the one-shot timer
SetSpeedOrZero == \E rpm \in RpmCommands \cup {0} : SetSpeedCommand(rpm)

NextZero ==
  \/ FastLoopTick
  \/ SetSpeedOrZero
  \/ LowLoopTick
  \/ OneShotExpired

SpecZero == Init /\ [][NextZero]_vars

\* the measurement channel on its own: ADC conversion-complete interrupt
\* against the fetch of the fast loop, each preemptible by the other between
\* statements in the one direction the interrupt priorities allow
AdcIsrEnter ==
  /\ adc.isr.pc = "idle" /\ MayEnter(adc, "adc")
  /\ adc_hist.started < MaxConversions
  /\ Becomes(Adc_Isr_Enter(Cur))

AdcIsrStore == Runs(adc, "adc") /\ adc.isr.pc = "store" /\ Becomes(Adc_Isr_Store(Cur))

AdcIsrNotify == Runs(adc, "adc") /\ adc.isr.pc = "notify" /\ Becomes(Adc_Isr_Notify(Cur))

FetchTest(c) == adc.fetch[c].pc = "idle" /\ MayEnter(adc, c) /\ Becomes(Fetch_Test(Cur, c))

FetchCopy(c) == Runs(adc, c) /\ adc.fetch[c].pc = "copy" /\ Becomes(Fetch_Copy(Cur, c))

FetchReturn(c) == Runs(adc, c) /\ adc.fetch[c].pc = "clear" /\ Becomes(Fetch_Clear(Cur, c))

NextAdc ==
  \/ AdcIsrEnter
  \/ AdcIsrStore
  \/ AdcIsrNotify
  \/ \E c \in Callers : FetchTest(c)
  \/ \E c \in Callers : FetchCopy(c)
  \/ \E c \in Callers : FetchReturn(c)

SpecAdc == Init /\ [][NextAdc]_vars

\* the BEMF monitor on its own, driven through its interface: process() with
\* any floating phase, sample set and time since the last stamp, reset() and
\* clear_flag() in any order
BemfProcess ==
  \E floating_phase \in Phases, meas \in BemfSamples \cup {NoSample},
     elapsed_us \in DegradedPeriods :
    /\ Becomes([BEMF_Process(Cur, floating_phase, meas, elapsed_us) EXCEPT
                  !.zc_hist = ZcObserve(zc_hist, bemf, floating_phase, meas, elapsed_us)])
    /\ bemf'.s_invalid_streak <= MaxRejects

BemfReset == Becomes([BEMF_Reset(Cur) EXCEPT !.zc_hist = ZcObserveReset(zc_hist)])

BemfClearFlag == Becomes([BEMF_ClearFlag(Cur) EXCEPT !.zc_hist.class = "clear"])

NextBemf == BemfProcess \/ BemfReset \/ BemfClearFlag

SpecBemf == Init /\ [][NextBemf]_vars

\* the monitor on one floating phase over a long run of crossings, the
\* invalid streak followed up to its saturation, with init() called again at
\* any point
BemfProcessLong ==
  \E meas \in AlternatingSamples, elapsed_us \in DegradedPeriods :
    Becomes([BEMF_Process(Cur, "A", meas, elapsed_us) EXCEPT
               !.zc_hist = ZcObserve(zc_hist, bemf, "A", meas, elapsed_us)])

BemfInitAgain == Becomes([BEMF_Init(Cur) EXCEPT !.zc_hist = ZcHistInit])

NextBemfLong == BemfProcessLong \/ BemfClearFlag \/ BemfInitAgain

SpecBemfLong == Init /\ [][NextBemfLong]_vars

\* the monitor on one floating phase with the clock of ITime->get_time_us():
\* every call of process() comes some time after the one before, and the
\* period it computes is the time since the timestamp was written
ClockProcess ==
  \E meas \in AlternatingSamples, d \in ClockSteps :
    LET period_us == zc_hist.since + d
        s == BEMF_Process(Cur, "A", meas, period_us)
        h == ZcObserve(zc_hist, bemf, "A", meas, period_us)
    IN /\ period_us <= MaxSinceUs
       /\ Becomes([s EXCEPT
                     !.zc_hist = [h EXCEPT
                       !.since = IF s.bemf.s_last_zc_time_us # bemf.s_last_zc_time_us
                                 THEN 0 ELSE period_us]])

NextClock == ClockProcess \/ BemfReset \/ BemfClearFlag

SpecClock == Init /\ [][NextClock]_vars

\* the ramp engine driven through its interface: Start with any arguments,
\* Stop from an interrupt handler (in one piece) and from the main context
\* (interruptible between its statements), StopSoft, a commutation scheduled
\* on the same timer, and the expiry of the timer
RampStart ==
  \E a \in RampArgs, cw \in BOOLEAN, cb \in RampCallbacks :
    Becomes([Service_Motor_OpenLoopRamp_Start(Cur, OL_DUTY_START, OL_DUTY_END,
                                              a.freq_start_hz, a.freq_end_hz,
                                              a.ramp_time_ms, cw, a.profile_type, cb) EXCEPT
               !.ramp_hist.last = "start", !.ramp_hist.completions = 0,
               !.ramp_hist.displaced = s_timerContext.callback,
               !.ramp_hist.stopped = FALSE])

RampStopIsr ==
  Becomes([Service_Motor_OpenLoopRamp_Stop(Cur) EXCEPT
             !.ramp_hist.last = "stop", !.ramp_hist.stopped = TRUE])

RampStopCancel ==
  /\ ramp_pc = "idle"
  /\ Becomes([(IF drv_oneshot_isActive(Cur) THEN drv_oneshot_cancel(Cur) ELSE Cur) EXCEPT
                !.ramp_pc = "cancelled", !.ramp_hist.last = "stop_cancel"])

RampStopDisable ==
  /\ ramp_pc = "cancelled"
  /\ Becomes([Driver_Disable(Cur) EXCEPT
                !.ramp_pc = "disabled", !.ramp_hist.last = "stop_disable"])

RampStopClear ==
  /\ ramp_pc = "disabled"
  /\ Becomes([Cur EXCEPT !.s_ramp_ctx = RampZero, !.ramp_pc = "idle",
                         !.ramp_hist.last = "stop", !.ramp_hist.stopped = TRUE])

RampStopSoft ==
  Becomes([Service_Motor_OpenLoopRamp_StopSoft(Cur) EXCEPT
             !.ramp_hist.last = "stop_soft", !.ramp_hist.stopped = TRUE])

RampScheduleCommutation ==
  Becomes([Service_ScheduleCommutation(Cur, COMM_DELAY_MIN_US, "Motor_ClosedLoop_Commutate")
             EXCEPT !.ramp_hist.last = "schedule", !.ramp_hist.displaced = "NULL"])

RampTimerExpired ==
  /\ s_timerContext.hw_enabled
  /\ Becomes([Driver_OneShot_OnTimerExpired(Cur) EXCEPT !.ramp_hist.last = "timer"])

NextRamp ==
  \/ RampStart
  \/ RampStopIsr
  \/ RampStopCancel
  \/ RampStopDisable
  \/ RampStopClear
  \/ RampStopSoft
  \/ RampScheduleCommutation
  \/ RampTimerExpired

SpecRamp == Init /\ [][NextRamp]_vars

(***************************************************************************)
(* Properties                                                              *)
(***************************************************************************)
\* a one-shot event of the given callbacks is armed
Pending(callbacks) ==
  s_timerContext.hw_enabled /\ s_timerContext.callback \in callbacks

\* C1: after Control_Motor_Stop() has returned, and until the next
\* Control_Motor_SetSpeed_RPM call, the mode is Stopped and the inverter is
\* disabled (status not enabled, no phase driven), whatever fast-loop ticks,
\* low-loop ticks and timer events follow, also when a reversal was pending.
C1_StopStaysStopped ==
  stop_returned =>
    /\ s_motor_mode = "STOPPED"
    /\ ~inverter.status.enabled
    /\ OutputsOff(inverter)


\* a stop operation completes in this step: Control_Motor_Stop() returns, or
\* the low loop runs the stop of a pending reversal
StopCompletes ==
  \/ StopSetMode
  \/ LowLoopTick /\ s_reverse_pending /\ ~s_reverse_pending'

CommutationCallbacks ==
  {"Motor_Ramp_OnStepEvent", "Motor_Transition_Commutate", "Motor_ClosedLoop_Commutate"}

\* C2: when a stop operation completes, under any interleaving with the
\* fast-loop and one-shot interrupts, no commutation, handover or ramp
\* callback is left armed on the one-shot timer (so none can fire after it).
C2_NoStaleCallbackAfterStop ==
  [][StopCompletes => ~Pending(CommutationCallbacks)']_vars

HandoverOrClosedLoop == {"Motor_Transition_Commutate", "Motor_ClosedLoop_Commutate"}

\* this step arms the one-shot timer with the given callback
StepSchedules(callback) ==
  /\ s_timerContext'.hw_enabled
  /\ s_timerContext'.callback = callback
  /\ \/ s_timerContext' # s_timerContext
     \/ callback = "Motor_ClosedLoop_Commutate" /\ ~s_ctx.comm_armed /\ s_ctx'.comm_armed
     \/ callback = "Motor_Transition_Commutate" /\ ~s_ctx.transition_scheduled
                                                /\ s_ctx'.transition_scheduled

\* C3: no double scheduling.  A closed-loop commutation is armed only by the
\* handover commutation itself or by a step that starts with comm_armed false,
\* a handover commutation only by a step that starts with transition_scheduled
\* false, and neither is armed while another closed-loop or handover
\* commutation is still pending on the timer.
C3_NoDoubleScheduling ==
  [][ /\ StepSchedules("Motor_ClosedLoop_Commutate") =>
           \/ OneShotExpired
           \/ ~s_ctx.comm_armed /\ ~Pending(HandoverOrClosedLoop)
      /\ StepSchedules("Motor_Transition_Commutate") =>
           ~s_ctx.transition_scheduled /\ ~Pending(HandoverOrClosedLoop) ]_vars

\* C4: the mode changes only along Stopped -> OpenLoop, OpenLoop -> ClosedLoop
\* and (OpenLoop or ClosedLoop) -> Stopped; never Stopped -> ClosedLoop or
\* ClosedLoop -> OpenLoop.
C4_ModeTransitions ==
  [][ s_motor_mode' # s_motor_mode =>
        << s_motor_mode, s_motor_mode' >> \in
           { << "STOPPED", "OPEN_LOOP" >>, << "OPEN_LOOP", "CLOSED_LOOP" >>,
             << "OPEN_LOOP", "STOPPED" >>, << "CLOSED_LOOP", "STOPPED" >> } ]_vars

\* the zero-crossing the fast loop of this step saw completes the handover count
HandoverZeroCrossing ==
  /\ FastLoopTick
  /\ s_motor_mode = "OPEN_LOOP"
  /\ ~s_ctx.transition_scheduled
  /\ s_bemf_status'.zero_cross_detected
  /\ s_bemf_status'.valid
  /\ SpeedAtLeastEnter(s_bemf_status'.period_us)
  /\ s_valid_zc_count = CL_MIN_VALID_ZC - 1

\* an interrupt handler runs and no commanded stop or reversal is involved
InterruptStep ==
  \/ FastLoopTick
  \/ OneShotExpired
  \/ LowLoopTick /\ ~s_reverse_pending

\* from the handover decision on: decided and not yet run, or closed loop
InHandover ==
  \/ s_motor_mode = "OPEN_LOOP" /\ s_ctx.transition_scheduled
  \/ s_motor_mode = "CLOSED_LOOP"

\* C5: in OpenLoop the zero-crossing that brings the count of valid
\* zero-crossings at speed to CL_MIN_VALID_ZC decides one handover: the
\* transition commutation runs at once or is the one armed event; when it runs
\* the mode becomes ClosedLoop and the ramp is soft-stopped, once; until then
\* nothing else changes the mode, the ramp or the armed event; and from the
\* decision on no interrupt handler turns the driven outputs off.
C5_SingleHandover ==
  [][ /\ HandoverZeroCrossing =>
           /\ s_valid_zc_count' = 0
           /\ \/ s_motor_mode' = "CLOSED_LOOP" /\ ~s_ctx'.transition_scheduled
              \/ /\ s_motor_mode' = "OPEN_LOOP"
                 /\ s_ctx'.transition_scheduled
                 /\ Pending({"Motor_Transition_Commutate"})'
      /\ (s_motor_mode = "OPEN_LOOP" /\ s_motor_mode' = "CLOSED_LOOP") =>
           /\ ~s_ramp_ctx'.active
           /\ ~s_ctx'.transition_scheduled
           /\ ~Pending({"Motor_Ramp_OnStepEvent", "Motor_Transition_Commutate"})'
           /\ ~OutputsOff(inverter')
      /\ (s_motor_mode = "OPEN_LOOP" /\ s_ctx.transition_scheduled /\ InterruptStep
            /\ ~(OneShotExpired /\ s_timerContext.callback = "Motor_Transition_Commutate")) =>
           /\ s_motor_mode' = s_motor_mode
           /\ s_ramp_ctx' = s_ramp_ctx
           /\ s_timerContext' = s_timerContext
      /\ (InHandover /\ InterruptStep /\ ~OutputsOff(inverter)) => ~OutputsOff(inverter')
    ]_vars

\* a handover has run and its first closed-loop commutation is armed
C5_Witness ==
  /\ s_motor_mode = "CLOSED_LOOP"
  /\ stop_pc = "idle"
  /\ ~s_ramp_ctx.active
  /\ s_ramp_ctx.elapsed_us > 0
  /\ s_ctx.step = (s_ramp_ctx.step_index + 1) % 6
  /\ s_ctx.comm_armed
  /\ Pending({"Motor_ClosedLoop_Commutate"})
  /\ ~OutputsOff(inverter)

TimerIdle(tc) ==
  ~tc.hw_enabled /\ ~tc.is_active /\ tc.callback = "NULL" /\ tc.user_context = "NULL"

\* the counter runs exactly while one callback is registered
TimerCoherent(tc) ==
  /\ tc.hw_enabled = tc.is_active
  /\ tc.is_active = (tc.callback # "NULL")

\* C7: one-shot replace semantics.  The scheduler holds at most the event of
\* the latest start(); an expiry happens only while an event is armed and has
\* the effect of that one callback, once: an event it replaced has no effect
\* (a handover or closed-loop commutation leaves the ramp position alone, a
\* ramp step leaves the commutation context alone); after an expiry whose
\* callback arms nothing, and after a cancel, the scheduler is idle.
C7_ReplaceSemantics ==
  [][ /\ TimerCoherent(s_timerContext')
      /\ OneShotExpired =>
           /\ s_timerContext.is_active /\ s_timerContext.callback # "NULL"
           /\ s_timerContext.callback = "Motor_ClosedLoop_Commutate" =>
                /\ TimerIdle(s_timerContext')
                /\ s_ctx'.step = (s_ctx.step + 1) % 6
                /\ s_ramp_ctx' = s_ramp_ctx
                /\ s_motor_mode' = s_motor_mode
           /\ s_timerContext.callback = "Motor_Transition_Commutate" =>
                /\ s_ctx'.step = (s_ctx.step + 1) % 6
                /\ s_ramp_ctx' = [s_ramp_ctx EXCEPT !.active = FALSE]
                /\ s_timerContext'.callback \in {"NULL", "Motor_ClosedLoop_Commutate"}
           /\ s_timerContext.callback = "Motor_Ramp_OnStepEvent" =>
                /\ s_ctx' = s_ctx
                /\ s_motor_mode' = s_motor_mode
                /\ s_timerContext'.callback \in {"NULL", "Motor_Ramp_OnStepEvent"}
                /\ s_ramp_ctx.active =>
                     \/ TimerIdle(s_timerContext') /\ ~s_ramp_ctx'.active
                     \/ s_ramp_ctx'.step_index = (s_ramp_ctx.step_index + 1) % 6
           /\ s_timerContext.callback = "Motor_Align_OnTimer" =>
                /\ s_ctx'.step = s_ctx.step
                /\ s_align' = "NULL"
      /\ StopService => TimerIdle(s_timerContext')
    ]_vars

\* a handover commutation was started over the armed ramp step: the ramp is
\* still active but its event is no longer the one held by the scheduler
C7_Witness ==
  /\ s_motor_mode = "OPEN_LOOP"
  /\ s_ramp_ctx.active
  /\ Pending({"Motor_Transition_Commutate"})
  /\ s_timerContext.is_active

\* duties Inverter_SixStepCommutate writes for a step
PatternDuties(step, duty, cw) ==
  [ph \in Phases |-> IF SixStepPattern(step, cw)[ph] # "HIZ" THEN duty ELSE 0]

Running == s_motor_mode \in {"OPEN_LOOP", "CLOSED_LOOP"}

\* C9: a speed command of the opposite direction issued while running leaves
\* the direction (and mode, timer, outputs) alone in that call: it sets
\* commanded to 0, buffers the magnitude and sets reverse_pending.  While the
\* reversal is pending and the motor runs (no Control_Motor_Stop in progress)
\* the direction changes only in a low-loop tick whose measured speed is
\* below REVERSE_SPEED_RPM, and that tick stops the motor (timer and ramp
\* reset, mode Stopped), makes the buffered magnitude the commanded speed,
\* clears reverse_pending and begins the alignment that restarts OpenLoop.
C9_SafeReversal ==
  [][ /\ \A rpm \in RpmCommands :
           (SetSpeedCommand(rpm) /\ Running /\ (rpm >= 0) # s_ctx.direction_cw) =>
             /\ s_ctx' = s_ctx
             /\ s_speed' = [s_speed EXCEPT !.commanded = 0, !.buffer = Abs(rpm)]
             /\ s_reverse_pending'
             /\ s_motor_mode' = s_motor_mode
             /\ s_timerContext' = s_timerContext
             /\ inverter' = inverter
      /\ (s_reverse_pending /\ Running /\ stop_pc = "idle"
            /\ s_ctx'.direction_cw # s_ctx.direction_cw) =>
             /\ LowLoopTick
             /\ s_speed'.measured < REVERSE_SPEED_RPM
             /\ s_motor_mode' = "STOPPED"
             /\ s_ramp_ctx' = RampZero
             /\ s_speed'.commanded = s_speed.buffer
             /\ ~s_reverse_pending'
             /\ s_align' = "Motor_StartOpenLoopRamp"
             /\ Pending({"Motor_Align_OnTimer"})'
      /\ (LowLoopTick /\ s_reverse_pending /\ Running
            /\ s_speed'.measured >= REVERSE_SPEED_RPM) =>
             /\ s_ctx'.direction_cw = s_ctx.direction_cw
             /\ s_reverse_pending'
             /\ s_motor_mode' = s_motor_mode
    ]_vars

\* the low loop has carried out a pending reversal: stopped, direction set,
\* buffered speed commanded, alignment armed
C9_Witness ==
  /\ s_motor_mode = "STOPPED"
  /\ stop_pc = "idle"
  /\ ~stop_returned
  /\ ~s_reverse_pending
  /\ s_speed.buffer = 1500
  /\ s_speed.commanded = 1500
  /\ s_align = "Motor_StartOpenLoopRamp"
  /\ Pending({"Motor_Align_OnTimer"})
  /\ s_ramp_ctx = RampZero

\* C10: the notification of a hardware fault disables the inverter and resets
\* the mode to Stopped in that step, and while the fault is present no
\* interrupt handler (commutation or ramp callback, loop tick) drives a phase.
C10_FaultStopsMotor ==
  [][ /\ NotifyFault =>
           /\ s_motor_mode' = "STOPPED"
           /\ ~inverter'.status.enabled
           /\ OutputsOff(inverter')
      /\ (inverter.status.fault # "NONE"
            /\ (OneShotExpired \/ FastLoopTick \/ LowLoopTick)) =>
           OutputsOff(inverter')
    ]_vars

\* C11: loss of BEMF validity in ClosedLoop does not by itself stop the motor.
\* With no stop command, reversal or fault, every step taken in ClosedLoop
\* that leaves the monitor invalid keeps the mode ClosedLoop and the inverter
\* as it was: no disable, at least one phase still driven.
C11_InvalidBemfKeepsRunning ==
  [][(s_motor_mode = "CLOSED_LOOP" /\ ~bemf'.s_bemf_status.valid)
       => /\ s_motor_mode' = "CLOSED_LOOP"
          /\ inverter'.status = inverter.status
          /\ ~OutputsOff(inverter')]_vars

\* in ClosedLoop, the phases driven, the monitor unlocked by out-of-bounds periods
C11_Witness ==
  /\ s_motor_mode = "CLOSED_LOOP"
  /\ ~bemf.s_bemf_status.valid
  /\ bemf.s_invalid_streak >= BEMF_UNLOCK_COUNT
  /\ ~OutputsOff(inverter)


\* C12: while in ClosedLoop with the BEMF invalid and no stop or fault,
\* commutation continues on the last-known schedule: commutation events keep
\* being scheduled.  The fast loop is where closed-loop commutation is
\* scheduled, so at the end of every fast-loop cycle that leaves the motor in
\* ClosedLoop with the monitor invalid a commutation event is armed.
C12_CommutationContinues ==
  [][(DegradedFastLoopTick /\ s_motor_mode' = "CLOSED_LOOP" /\ ~bemf'.s_bemf_status.valid)
       => Pending({"Motor_ClosedLoop_Commutate"})']_vars

\* once no commutation event is armed in ClosedLoop, none is armed and the
\* step does not advance for as long as the monitor stays invalid
StallPersists ==
  [][(/\ s_motor_mode = "CLOSED_LOOP" /\ ~bemf.s_bemf_status.valid
      /\ ~Pending({"Motor_ClosedLoop_Commutate"}) /\ ~bemf'.s_bemf_status.valid)
       => /\ ~Pending({"Motor_ClosedLoop_Commutate"})'
          /\ s_ctx'.step = s_ctx.step]_vars


\* what a low-loop cycle leaves alone: the mode, the commutation context but
\* for the duty, and the state of the fast loop, the timer and the inverter
LowLoopFrame ==
  /\ s_motor_mode' = s_motor_mode
  /\ s_ctx' = [s_ctx EXCEPT !.duty = s_ctx'.duty]
  /\ UNCHANGED << s_floating_phase, s_bemf_status, s_valid_zc_count, bemf, s_ramp_ctx,
                  s_align, s_timerContext, inverter >>

\* C13 as stated: the low loop writes only the duty and the speed-target
\* variables; the mode and the commutation context (step, direction,
\* comm_armed, transition_scheduled, handover_armed) are never written by it.
C13_LowLoopWritesOnlyDuty == [][LowLoopTick => LowLoopFrame]_vars

\* the low loop executes a pending reversal in this cycle
ReversalExecutes == LowLoopTick /\ s_reverse_pending /\ ~s_reverse_pending'

\* C13 amended: a low-loop cycle that does not execute a pending reversal
\* writes only the duty, the PID state and the speed variables; the mode and
\* the commutation context are left alone.
C13_LowLoopPartition == [][(LowLoopTick /\ ~ReversalExecutes) => LowLoopFrame]_vars

\* ClosedLoop with the duty the PID produced in a low-loop cycle
C13_Witness ==
  /\ s_motor_mode = "CLOSED_LOOP"
  /\ speed_pid.output >= PID_OUT_MIN
  /\ s_ctx.duty = speed_pid.output
  /\ speed_pid.prev_error # 0


\* the sample set the fetch returns comes from one conversion
Untorn(meas) == \A f, g \in FieldNames : meas[f] = meas[g]

\* a fetch by c returns true, and what it returns is one whole sample set,
\* not returned before, and the newest one published if the flag is left clear
FetchReturnsFresh(c) ==
  FetchReturn(c) =>
    /\ Untorn(adc.fetch[c].meas)
    /\ adc.fetch[c].meas[Fields[1]] \notin adc_hist.returned
    /\ ~adc'.is_new_data_ready => adc_hist.published = adc.fetch[c].meas[Fields[1]]

\* C14: for every interleaving of the ADC-complete handler with
\* get_latest_measurements, a fetch that returns true returns a sample set
\* that is not partly old and partly new, that was not returned before, and
\* consumes that one sample only: when it leaves the flag cleared, no newer
\* sample has been published.
C14_SampleConsumedOnce == [][\A c \in Callers : FetchReturnsFresh(c)]_vars

\* the same holds as long as no context has been entered while another one
\* was inside the handler or the fetch
C14_AtomicFetch ==
  [][~adc_hist.preempted => \A c \in Callers : FetchReturnsFresh(c)]_vars

\* the fetch of the main context alone, in the runs in which neither
\* interrupt handler has preempted the other
C14_MainFetch ==
  [][(adc.prio = "unknown" /\ adc.fetch["fast"].pc = "idle") => FetchReturnsFresh("main")]_vars

\* C15: at the end of every fast-loop cycle (and of every other handler) the
\* monitor's zero_cross_detected is false: the fast loop clears it on every
\* path on which it observed it set, so a crossing is acted on in the cycle
\* that accepted it and in no later one.
C15_FlagClearedEveryCycle == ~bemf.s_bemf_status.zero_cross_detected

\* a fast-loop cycle has observed the flag set (the copy of the control layer
\* still shows it) and the monitor's flag is clear again
C15_Witness ==
  /\ s_bemf_status.zero_cross_detected
  /\ ~bemf.s_bemf_status.zero_cross_detected
  /\ s_motor_mode = "CLOSED_LOOP"

\* a fast-loop cycle that observes the flag set is one whose own
\* BEMF_Process accepted a crossing (it wrote the timestamp)
C15_NoReprocessing ==
  [][(FastLoopTick /\ s_bemf_status'.zero_cross_detected)
       => bemf'.s_last_zc_time_us # bemf.s_last_zc_time_us]_vars

\* a call of BEMF_Process that was given a sample (BemfProcess is the only
\* action that leaves one of these classes in the record)
ProcessStep ==
  zc_hist'.class \in {"no_zc", "noise", "baseline", "rejected", "accepted"}

\* C16: starting from a monitor whose valid is false, a call of process()
\* makes valid true exactly when it accepts a crossing that is the
\* BEMF_LOCK_COUNT-th accepted one in a row; a bounds-rejected crossing in
\* between restarts the count.
C16_LockOnNthAccepted ==
  [][(ProcessStep /\ ~bemf.s_bemf_status.valid) =>
       (bemf'.s_bemf_status.valid <=>
          (zc_hist'.class = "accepted" /\ zc_hist'.accepted >= BEMF_LOCK_COUNT))]_vars

\* the monitor has just locked on a second accepted crossing in a row, after a
\* rejected crossing had restarted the count
C16_Witness ==
  /\ zc_hist.class = "accepted" /\ zc_hist.accepted = BEMF_LOCK_COUNT
  /\ bemf.s_bemf_status.valid /\ bemf.s_locked
  /\ bemf.s_valid_streak = BEMF_LOCK_COUNT
  /\ zc_hist.passed = 2

\* C17: once valid is true, a call of process() makes it false exactly when
\* it rejects a crossing on bounds that is the BEMF_UNLOCK_COUNT-th rejected
\* one in a row; any accepted crossing resets the invalid count to 0.
C17_UnlockOnMthRejected ==
  [][ProcessStep =>
       /\ bemf.s_bemf_status.valid =>
            (~bemf'.s_bemf_status.valid <=>
               (zc_hist'.class = "rejected" /\ zc_hist'.rejected >= BEMF_UNLOCK_COUNT))
       /\ zc_hist'.class = "accepted" => bemf'.s_invalid_streak = 0]_vars

\* the monitor was locked and has just unlocked on the fifth rejection in a row
C17_Witness ==
  /\ zc_hist.class = "rejected" /\ zc_hist.rejected = BEMF_UNLOCK_COUNT
  /\ ~bemf.s_bemf_status.valid /\ ~bemf.s_locked
  /\ bemf.s_invalid_streak = BEMF_UNLOCK_COUNT

\* the call of process() treated its sample as a zero-crossing above the
\* noise floor: it changed more of the monitor than the stored sample
CrossingDetected ==
  [bemf' EXCEPT !.s_prev_bemf = 0] # [bemf EXCEPT !.s_prev_bemf = 0]

\* C18: process(p) detects a zero-crossing only where the sample of phase p
\* differs in sign from the previous sample of the same phase p (a phase
\* without a previous sample is left aside); a change of floating phase
\* alone produces no zero-crossing.
C18_CrossingOfSamePhase ==
  [][(ProcessStep /\ CrossingDetected) => zc_hist'.own_change]_vars

\* C19: after reset(), the first crossing above the noise floor only records
\* the timestamp: zero_cross_detected stays false, no period is published,
\* valid stays false and both streak counters stay 0; a call that publishes a
\* status with zero_cross_detected set has had such a crossing before it.
C19_FirstCrossingIsBaseline ==
  [][ProcessStep =>
       /\ zc_hist'.class = "baseline" =>
            /\ bemf'.s_last_zc_time_us # bemf.s_last_zc_time_us
            /\ ~bemf'.s_bemf_status.zero_cross_detected
            /\ bemf'.s_bemf_status.period_us = 0 /\ bemf'.s_last_period_us = 0
            /\ ~bemf'.s_bemf_status.valid
            /\ bemf'.s_valid_streak = 0 /\ bemf'.s_invalid_streak = 0
       /\ (bemf'.s_bemf_status.zero_cross_detected
             /\ bemf'.s_bemf_status # bemf.s_bemf_status) => zc_hist.passed >= 1]_vars

\* a reset has happened (the timestamp has been written twice), and the first
\* crossing after it has been taken as the baseline
C19_Witness ==
  /\ zc_hist.class = "baseline" /\ zc_hist.passed = 1
  /\ ~bemf.s_bootstrap
  /\ bemf.s_last_zc_time_us = 0

\* C20: a sign change at which the current and the previous BEMF are both
\* below the amplitude threshold leaves the status, the lock state, both
\* streak counters, the bootstrap flag and the timestamp unchanged.
C20_NoiseChangesNothing ==
  [][(ProcessStep /\ zc_hist'.class = "noise") =>
       /\ bemf'.s_bemf_status = bemf.s_bemf_status
       /\ bemf'.s_locked = bemf.s_locked
       /\ bemf'.s_valid_streak = bemf.s_valid_streak
       /\ bemf'.s_invalid_streak = bemf.s_invalid_streak
       /\ bemf'.s_bootstrap = bemf.s_bootstrap
       /\ bemf'.s_last_zc_time_us = bemf.s_last_zc_time_us]_vars

\* a sign change below the noise floor has been processed while the monitor
\* was locked and its zero_cross_detected was still set
C20_Witness ==
  /\ zc_hist.class = "noise"
  /\ bemf.s_bemf_status.zero_cross_detected /\ bemf.s_bemf_status.valid
  /\ bemf.s_locked


\* what a bounds-rejected crossing leaves alone and what it resets
RejectedAbsorbed ==
  /\ ~bemf'.s_bemf_status.zero_cross_detected
  /\ bemf'.s_bemf_status.period_us = bemf.s_bemf_status.period_us
  /\ bemf'.s_bemf_status.floating_phase = bemf.s_bemf_status.floating_phase
  /\ bemf'.s_last_period_us = bemf.s_last_period_us
  /\ bemf'.s_last_zc_time_us = bemf.s_last_zc_time_us
  /\ bemf'.s_valid_streak = 0

\* C21: a zero-crossing whose elapsed time is outside the period bounds never
\* sets zero_cross_detected, leaves period_us and the last accepted timestamp
\* unchanged, resets the valid streak and increments the invalid streak; of
\* the status only valid can change.
C21_RejectedIncrements ==
  [][zc_hist'.class = "rejected" =>
       /\ RejectedAbsorbed
       /\ bemf'.s_invalid_streak = bemf.s_invalid_streak + 1]_vars

\* C21 as amended: the same, the invalid streak being incremented up to
\* STREAK_MAX and left there once it has reached it.
C21_RejectedIncrementsSaturating ==
  [][zc_hist'.class = "rejected" =>
       /\ RejectedAbsorbed
       /\ bemf'.s_invalid_streak = Min(bemf.s_invalid_streak + 1, STREAK_MAX)]_vars

\* a crossing has been rejected with the invalid streak at its saturation
C21_Witness ==
  /\ zc_hist.class = "rejected"
  /\ bemf.s_invalid_streak = STREAK_MAX
  /\ ~bemf.s_bemf_status.valid


\* C22: after init(), whatever the history of the monitor, valid and
\* zero_cross_detected are false, the lock state and both streak counters are
\* cleared, the filtered period is 0 and the next crossing is the baseline
\* one.
C22_InitResetsAll ==
  [][BemfInitAgain =>
       /\ ~bemf'.s_bemf_status.valid /\ ~bemf'.s_bemf_status.zero_cross_detected
       /\ ~bemf'.s_locked
       /\ bemf'.s_valid_streak = 0 /\ bemf'.s_invalid_streak = 0
       /\ bemf'.s_last_period_us = 0
       /\ bemf'.s_bootstrap]_vars

\* what init() does reset: the published status and the stored sample
C22_InitResetsStatus ==
  [][BemfInitAgain =>
       /\ bemf'.s_bemf_status = BemfStatusZero
       /\ bemf'.s_prev_bemf = 0
       /\ bemf'.s_initialized]_vars


\* C23: clear_flag() leaves zero_cross_detected false and every other field
\* of the status (and of the monitor) as it was, and a second call right
\* after it changes nothing more.
C23_ClearFlagIdempotent ==
  [][zc_hist'.class = "clear" =>
       /\ bemf' = [bemf EXCEPT !.s_bemf_status.zero_cross_detected = FALSE]
       /\ bemf'.s_bemf_status.period_us = bemf.s_bemf_status.period_us
       /\ bemf'.s_bemf_status.floating_phase = bemf.s_bemf_status.floating_phase
       /\ bemf'.s_bemf_status.valid = bemf.s_bemf_status.valid
       /\ BEMF_ClearFlag(BEMF_ClearFlag(Cur)).bemf = bemf'
       /\ ~BEMF_ClearFlag(BEMF_ClearFlag(Cur)).bemf.s_bemf_status.zero_cross_detected]_vars

\* clear_flag() has been called on a locked monitor that had published a period
C23_Witness ==
  /\ zc_hist.class = "clear"
  /\ ~bemf.s_bemf_status.zero_cross_detected
  /\ bemf.s_bemf_status.valid /\ bemf.s_bemf_status.period_us > 0
  /\ bemf.s_bemf_status.floating_phase = "C"



\* the one-shot timer holds one event: the ramp step, due after delay_us
RampEventArmed(timer, delay_us) ==
  timer = [is_active |-> TRUE, callback |-> "Motor_Ramp_OnStepEvent",
           user_context |-> "s_ramp_ctx", hw_enabled |-> TRUE, arr |-> delay_us]

\* the inverter drives the pattern of the step at the duty
StepApplied(inv, step, cw, duty) ==
  /\ PatternApplied(inv, SixStepPattern(step, cw))
  /\ \A ph \in Phases :
       inv.duties[ph] = IF SixStepPattern(step, cw)[ph] # "HIZ" THEN duty ELSE 0

\* C24: Service_Motor_OpenLoopRamp_Start leaves the ramp context at step 0,
\* elapsed 0 and active, the inverter on step 0 at duty_start in the requested
\* direction, and the one-shot timer holding exactly the next ramp step, due
\* after the step period of the start frequency; the event that was pending
\* when Start was called (here a closed-loop commutation) never fires
\* afterwards.
C24_StartReplacesPending ==
  [][/\ ramp_hist'.last = "start" =>
          /\ s_ramp_ctx'.step_index = 0 /\ s_ramp_ctx'.elapsed_us = 0
          /\ s_ramp_ctx'.active
          /\ s_ramp_ctx'.current_duty = s_ramp_ctx'.duty_start
          /\ StepApplied(inverter', 0, s_ramp_ctx'.direction_cw, s_ramp_ctx'.duty_start)
          /\ RampEventArmed(s_timerContext', RampStepDelayUs(s_ramp_ctx'.freq_start_hz))
     /\ (ramp_hist'.last = "timer" /\ ramp_hist.displaced = "Motor_ClosedLoop_Commutate") =>
          s_timerContext.callback # "Motor_ClosedLoop_Commutate"]_vars

\* a ramp was started over a pending closed-loop commutation, and its first
\* step event has fired since
C24_Witness ==
  /\ ramp_hist.last = "timer" /\ ramp_hist.displaced = "Motor_ClosedLoop_Commutate"
  /\ s_ramp_ctx.active /\ s_ramp_ctx.step_index = 1



\* the one-shot timer runs the step callback of an active ramp
RampStepFires ==
  /\ ramp_hist'.last = "timer"
  /\ s_timerContext.callback = "Motor_Ramp_OnStepEvent"
  /\ s_ramp_ctx.active

\* C25: every step callback of an active ramp increases the elapsed time (by
\* at least the minimum step period); at the callback that brings it to the
\* ramp time or beyond the ramp becomes inactive, the inverter is disabled,
\* no event is left armed and on_complete, if one was given, is called, once
\* per started ramp; with a ramp time of 0 this is the first callback.  The
\* elapsed time of a running ramp stays below the ramp time and grows by at
\* least RAMP_MIN_STEP_US per callback, which bounds the number of callbacks.
C25_RampTerminates ==
  [][/\ RampStepFires =>
          /\ s_ramp_ctx'.elapsed_us >= s_ramp_ctx.elapsed_us + RAMP_MIN_STEP_US
          /\ s_ramp_ctx'.active = (s_ramp_ctx'.elapsed_us < s_ramp_ctx.ramp_time_us)
          /\ s_ramp_ctx.ramp_time_us = 0 => ~s_ramp_ctx'.active
          /\ ~s_ramp_ctx'.active =>
                /\ OutputsOff(inverter') /\ ~inverter'.status.enabled
                /\ s_timerContext' = [TimerInit EXCEPT !.arr = s_timerContext.arr]
                /\ ramp_hist'.completions = ramp_hist.completions +
                      (IF s_ramp_ctx.on_complete # "NULL" THEN 1 ELSE 0)
     /\ ~RampStepFires => ramp_hist'.completions \in {0, ramp_hist.completions}
     /\ ramp_hist'.completions <= 1]_vars

\* a ramp with a completion callback has run to its end and called it
C25_Witness ==
  /\ ramp_hist.last = "timer" /\ ramp_hist.completions = 1
  /\ ~s_ramp_ctx.active /\ s_ramp_ctx.elapsed_us >= s_ramp_ctx.ramp_time_us
  /\ s_ramp_ctx.step_index > 0



\* C26: a step callback that does not end the ramp advances step_index by one
\* modulo 6, applies that step at the current duty in the direction of the
\* ramp, and arms exactly one event, the next step, due after
\* 1e6 / (6 * current_freq_hz) us and never less than RAMP_MIN_STEP_US; in
\* every state the step index is within 0..5 and a pending ramp event was
\* armed with at least RAMP_MIN_STEP_US.
C26_StepAdvancesAndRearms ==
  [][/\ (RampStepFires /\ s_ramp_ctx'.active) =>
          /\ s_ramp_ctx'.step_index = (s_ramp_ctx.step_index + 1) % 6
          /\ StepApplied(inverter', s_ramp_ctx'.step_index, s_ramp_ctx.direction_cw,
                         s_ramp_ctx'.current_duty)
          /\ RampEventArmed(s_timerContext',
                            Max(1000000 \div (6 * s_ramp_ctx'.current_freq_hz),
                                RAMP_MIN_STEP_US))
     /\ s_ramp_ctx'.step_index \in 0..5
     /\ Pending({"Motor_Ramp_OnStepEvent"})' => s_timerContext'.arr >= RAMP_MIN_STEP_US]_vars

\* a ramp above 1667 Hz has taken a step: the period of its frequency is
\* under the minimum and the event is armed with the minimum
C26_Witness ==
  /\ ramp_hist.last = "timer" /\ s_ramp_ctx.active /\ s_ramp_ctx.step_index = 1
  /\ 1000000 \div (6 * s_ramp_ctx.current_freq_hz) < RAMP_MIN_STEP_US
  /\ s_timerContext.arr = RAMP_MIN_STEP_US /\ Pending({"Motor_Ramp_OnStepEvent"})



C27_StartInsideStop ==
  /\ ramp_hist.last = "stop" /\ ramp_hist.stopped /\ ~s_ramp_ctx.active
  /\ Pending({"Motor_Ramp_OnStepEvent"}) /\ ~OutputsOff(inverter)



\* the rotor alignment that precedes a ramp is in progress
AlignmentRuns ==
  Pending({"Motor_Align_OnTimer"}) /\ s_align = "Motor_StartOpenLoopRamp"

StaleTargets == {0, 1500, 2777}

\* C29: a low-loop tick in ClosedLoop moves the speed target toward the
\* commanded speed by at most the ramp slope: the new target lies between the
\* old target and the commanded speed, at most slope away from the old one,
\* and differs from it unless the commanded speed was reached; the slope is
\* within 1..500 RPM per ms.  A low-loop tick in Stopped or OpenLoop leaves
\* the target at 0, whatever it was.
C29_TargetRamp ==
  [][LowLoopTick =>
       /\ s_speed.slope \in 1..500 /\ s_speed'.slope = s_speed.slope
       /\ IF s_motor_mode = "CLOSED_LOOP"
          THEN /\ Abs(s_speed'.target - s_speed.target) <= s_speed.slope
               /\ s_speed'.target >= Min(s_speed.target, s_speed.commanded)
               /\ s_speed'.target <= Max(s_speed.target, s_speed.commanded)
               /\ s_speed.target # s_speed.commanded => s_speed'.target # s_speed.target
          ELSE /\ s_speed'.target = 0
               /\ \A t \in StaleTargets :
                    Motor_LowLoop([Cur EXCEPT !.s_speed.target = t]).s_speed.target = 0]_vars

\* the target has come down to the commanded speed in closed loop under a
\* slope set by command: the last move was shorter than the slope
C29_Witness ==
  /\ s_motor_mode = "CLOSED_LOOP"
  /\ s_speed.target = s_speed.commanded /\ s_speed.commanded > 0
  /\ s_speed.slope = 3



\* C30: after every Service_PID_Update, whatever the setpoints and
\* measurements so far, the output lies in [out_min, out_max] and the
\* integrator in [-integrator_limit, +integrator_limit], for controllers with
\* out_min <= out_max and integrator_limit >= 0; the update leaves gains and
\* limits as they were.
C30_PidBounded ==
  [][PidUpdate =>
       /\ speed_pid.out_min <= speed_pid.out_max /\ speed_pid.integrator_limit >= 0
       /\ speed_pid'.output >= speed_pid.out_min
       /\ speed_pid'.output <= speed_pid.out_max
       /\ speed_pid'.integrator >= -speed_pid.integrator_limit
       /\ speed_pid'.integrator <= speed_pid.integrator_limit
       /\ speed_pid' = [speed_pid EXCEPT !.integrator = speed_pid'.integrator,
                                         !.prev_error = speed_pid'.prev_error,
                                         !.output = speed_pid'.output]]_vars

\* an update with a negative error has put the integrator on its lower
\* limit and the output strictly inside its range
C30_Witness ==
  /\ speed_pid.prev_error < 0
  /\ speed_pid.integrator_limit > 0
  /\ speed_pid.integrator = -speed_pid.integrator_limit
  /\ speed_pid.output > speed_pid.out_min /\ speed_pid.output < speed_pid.out_max



\* an update of a controller with kp = ki = kd = 0, given a nonzero error
ZeroGainUpdate ==
  /\ PidUpdate
  /\ speed_pid.kp = 0 /\ speed_pid.ki_dt = 0 /\ speed_pid.kd = 0
  /\ speed_pid'.prev_error # 0

\* C31: a PID with kp = ki = kd = 0 returns out_min for any nonzero error,
\* whatever the output limits are.
C31_ZeroGainsReturnOutMin ==
  [][ZeroGainUpdate => speed_pid'.output = speed_pid.out_min]_vars

\* C31 as amended: with kp = ki = kd = 0 the sum of the three terms is 0, and
\* the output is 0 brought into [out_min, out_max]; it is out_min for every
\* configuration of the limits with out_min >= 0.
C31_ZeroGainsReturnClampedZero ==
  [][ZeroGainUpdate =>
       /\ speed_pid'.output = Min(Max(0, speed_pid.out_min), speed_pid.out_max)
       /\ speed_pid.out_min >= 0 => speed_pid'.output = speed_pid.out_min]_vars

\* a controller with all gains zero and a positive out_min has been given a
\* nonzero error and has returned out_min
C31_Witness ==
  /\ speed_pid.kp = 0 /\ speed_pid.ki_dt = 0 /\ speed_pid.kd = 0
  /\ speed_pid.prev_error # 0
  /\ speed_pid.out_min > 0 /\ speed_pid.output = speed_pid.out_min



\* the phases a pattern leaves floating, and the phases the inverter leaves
\* undriven
HizPhases(pattern) == {ph \in Phases : pattern[ph] = "HIZ"}
FloatingPhases(inv) == {ph \in Phases : ~PhaseDriven(inv, ph)}

\* the order in which the floating phase goes round counter-clockwise
NextFloatingCcw == [A |-> "B", B |-> "C", C |-> "A"]

\* the pattern tables: one floating phase per step, each phase floating at
\* two of the six steps, a different one from each step to the next (step 5
\* to step 0 included), in the order A, B, C counter-clockwise and in the
\* reverse order clockwise
TablesRotate ==
  /\ \A cw \in BOOLEAN, step \in 0..5 :
       /\ Cardinality(HizPhases(SixStepPattern(step, cw))) = 1
       /\ HizPhases(SixStepPattern(step, cw)) # HizPhases(SixStepPattern((step + 1) % 6, cw))
  /\ \A cw \in BOOLEAN, ph \in Phases :
       Cardinality({step \in 0..5 : ph \in HizPhases(SixStepPattern(step, cw))}) = 2
  /\ \A step \in 0..5, ph \in Phases :
       /\ ph \in HizPhases(SixStepPattern(step, FALSE)) =>
            NextFloatingCcw[ph] \in HizPhases(SixStepPattern((step + 1) % 6, FALSE))
       /\ NextFloatingCcw[ph] \in HizPhases(SixStepPattern(step, TRUE)) =>
            ph \in HizPhases(SixStepPattern((step + 1) % 6, TRUE))

\* C32: for every step 0..5 and both directions the six-step pattern leaves
\* exactly one phase floating, each phase floats at two of the six steps and
\* never at two consecutive ones, and the floating phase goes round A, B, C
\* in one direction and in the opposite order in the other.  A ramp that
\* starts or takes a step leaves exactly one phase of the inverter undriven,
\* and a ramp step moves the floating phase on by one place in the order of
\* the ramp's direction.
C32_OneFloatingPhaseRotating ==
  [][/\ TablesRotate
     /\ (ramp_hist'.last = "start" \/ (RampStepFires /\ s_ramp_ctx'.active)) =>
          /\ Cardinality(FloatingPhases(inverter')) = 1
          /\ FloatingPhases(inverter') =
               HizPhases(SixStepPattern(s_ramp_ctx'.step_index, s_ramp_ctx'.direction_cw))
     /\ (RampStepFires /\ s_ramp_ctx'.active) =>
          \A ph \in FloatingPhases(inverter') :
            IF s_ramp_ctx.direction_cw
            THEN NextFloatingCcw[ph] \in
                   HizPhases(SixStepPattern(s_ramp_ctx.step_index, TRUE))
            ELSE \E q \in HizPhases(SixStepPattern(s_ramp_ctx.step_index, FALSE)) :
                   NextFloatingCcw[q] = ph]_vars

\* a counter-clockwise ramp has gone round to step 0 again: phase A floats
C32_Witness ==
  /\ ramp_hist.last = "timer" /\ s_ramp_ctx.active
  /\ ~s_ramp_ctx.direction_cw /\ s_ramp_ctx.step_index = 0 /\ s_ramp_ctx.elapsed_us > 0
  /\ FloatingPhases(inverter) = {"A"}



\* C36: for every step 0..5 and both directions Motor_GetFloatingPhase
\* returns the one phase the pattern table of that step and direction sets to
\* Hi-Z.  So the phase the fast loop samples is undriven: in OpenLoop the
\* phase it looks up from the ramp state, in ClosedLoop the phase recorded at
\* the last commutation.
C36_LookupMatchesTable ==
  /\ \A cw \in BOOLEAN, step \in 0..5 :
       HizPhases(SixStepPattern(step, cw)) = {Motor_GetFloatingPhase(step, cw)}
  /\ s_motor_mode = "OPEN_LOOP" =>
       Motor_GetFloatingPhase(Service_Motor_OpenLoopRamp_GetState(Cur).step_index,
                              Service_Motor_OpenLoopRamp_GetState(Cur).direction_cw)
         \in FloatingPhases(inverter)
  /\ s_motor_mode = "CLOSED_LOOP" => s_floating_phase \in FloatingPhases(inverter)

\* closed loop, clockwise, at step 4 after a commutation: phases A and C are
\* driven and the sampled phase B is the floating one
C36_Witness ==
  /\ s_motor_mode = "CLOSED_LOOP" /\ s_ctx.direction_cw /\ s_ctx.step = 4
  /\ s_floating_phase = "B" /\ FloatingPhases(inverter) = {"B"}



\* Control_Motor_SetSpeed_RPM(0) is called while the motor runs
ZeroCommandWhileRunning == SetSpeedCommand(0) /\ s_motor_mode # "STOPPED"

\* C33: a speed command of 0 RPM issued while the motor runs, in either
\* direction, sets the commanded speed to 0, does not set reverse_pending and
\* leaves the direction as it is; with no reversal pending, no direction flip
\* and restart follows.
C33_ZeroMeansStop ==
  [][ZeroCommandWhileRunning =>
       /\ s_speed'.commanded = 0
       /\ s_reverse_pending' = s_reverse_pending
       /\ s_ctx'.direction_cw = s_ctx.direction_cw]_vars

\* what the command 0 does while the motor runs: clockwise it only sets the
\* commanded speed to 0, counter-clockwise it requests a reversal
C33_ZeroIsClockwise ==
  [][ZeroCommandWhileRunning =>
       /\ s_speed'.commanded = 0
       /\ s_ctx'.direction_cw = s_ctx.direction_cw
       /\ s_reverse_pending' = (s_reverse_pending \/ ~s_ctx.direction_cw)
       /\ ~s_ctx.direction_cw => s_speed'.buffer = 0]_vars

\* the command 0 given to a motor running counter-clockwise has led to a
\* flip of the direction and a new alignment
C33_RestartAfterZero ==
  /\ s_speed.buffer = 0 /\ s_speed.commanded = 0 /\ ~s_reverse_pending
  /\ s_ctx.direction_cw /\ AlignmentRuns /\ ramp_starts = 1



\* C34: in ClosedLoop, comm_armed is true exactly when a closed-loop
\* commutation is pending on the one-shot timer; in particular comm_armed is
\* never true with nothing pending.
C34_ArmedIffPending ==
  s_motor_mode = "CLOSED_LOOP" =>
    (s_ctx.comm_armed <=> Pending({"Motor_ClosedLoop_Commutate"}))



\* what holds of comm_armed with the interrupt handlers alone: outside a
\* Control_Motor_Stop call, in ClosedLoop, it is true exactly when a
\* closed-loop commutation is pending
C34_ArmedIffPendingOutsideStop ==
  (s_motor_mode = "CLOSED_LOOP" /\ stop_pc = "idle" /\ ~stop_returned) =>
    (s_ctx.comm_armed <=> Pending({"Motor_ClosedLoop_Commutate"}))


\* the transition commutation: the step that takes the mode from OpenLoop to
\* ClosedLoop, fired by the one-shot timer or run at once by the fast loop
TransitionCommutation ==
  s_motor_mode = "OPEN_LOOP" /\ s_motor_mode' = "CLOSED_LOOP"

C35_HandoverContinuesOutsideStop ==
  [][(TransitionCommutation /\ stop_pc = "idle") =>
       /\ s_ctx'.step = (ramp_hist.applied.step + 1) % 6
       /\ s_ctx'.direction_cw = ramp_hist.applied.cw
       /\ StepApplied(inverter', s_ctx'.step, s_ctx'.direction_cw, s_ctx'.duty)]_vars


\* C37: while the mode is Stopped a fast-loop cycle, whatever sample it is
\* given, schedules nothing on the one-shot timer, applies no pattern to the
\* inverter and leaves the commutation context, the mode and the streak
\* counter alone; a zero-crossing it observes only has its flag cleared
C37_StoppedFastLoopInert ==
  s_motor_mode = "STOPPED" =>
    \A meas \in Samples \cup {NoSample}, elapsed_us \in Periods, age \in Ages :
      LET n == Motor_FastLoop(Cur, meas, elapsed_us, age)
      IN /\ n.s_timerContext = s_timerContext
         /\ n.inverter = inverter
         /\ n.s_ctx = s_ctx
         /\ n.s_motor_mode = "STOPPED"
         /\ n.s_valid_zc_count = s_valid_zc_count
         /\ ~n.bemf.s_bemf_status.zero_cross_detected

\* a stopped motor whose monitor is still locked and which is given a sample
\* that is a zero-crossing of the floating phase at a speed above the
\* handover threshold
C37_Witness ==
  /\ s_motor_mode = "STOPPED" /\ stop_returned
  /\ ~s_ctx.comm_armed /\ ~s_ctx.transition_scheduled
  /\ \E meas \in Samples, elapsed_us \in Periods :
       LET st == BEMF_Process(Cur, s_floating_phase, meas, elapsed_us).bemf.s_bemf_status
       IN /\ st.zero_cross_detected /\ st.valid
          /\ st.floating_phase = s_floating_phase
          /\ SpeedAtLeastEnter(st.period_us)


\* a ramp context that reached its total duration: inactive, not cleared
RampRanOut(ctx) ==
  ~ctx.active /\ ctx.ramp_time_us > 0 /\ ctx.elapsed_us >= ctx.ramp_time_us

\* speed commands in the direction of the commutation context
SameDirectionCommands ==
  {rpm \in RpmCommands \cup {2 * r : r \in RpmCommands} : (rpm >= 0) = s_ctx.direction_cw}

\* C38: the ramp step that reaches the total duration disables the inverter
\* and leaves the mode as it is, OpenLoop; from then on the mode leaves OpenLoop only by
\* a handover, the mode write of Control_Motor_Stop or a reversal, and the
\* ramp context is touched only by the stop service of Control_Motor_Stop or
\* of a reversal; a speed command in the current direction changes the
\* commanded speed and nothing else
C38_RampRunsOutInOpenLoop ==
  [][/\ (s_ramp_ctx.active /\ RampRanOut(s_ramp_ctx')) =>
          /\ OutputsOff(inverter') /\ ~s_timerContext'.is_active
          /\ s_motor_mode' = s_motor_mode
     /\ (s_motor_mode = "OPEN_LOOP" /\ RampRanOut(s_ramp_ctx)) =>
          /\ s_motor_mode' # "OPEN_LOOP" =>
               \/ TransitionCommutation
               \/ stop_pc = "ctx_cleared" /\ stop_pc' = "idle"
               \/ s_reverse_pending /\ ~s_reverse_pending'
          /\ s_ramp_ctx' # s_ramp_ctx =>
               \/ stop_pc = "idle" /\ stop_pc' = "service_done"
               \/ s_reverse_pending /\ ~s_reverse_pending'
          /\ \A rpm \in SameDirectionCommands :
               Control_Motor_SetSpeed_RPM(Cur, rpm) =
                 [Cur EXCEPT !.s_speed.commanded = Abs(rpm)]]_vars

\* the ramp ran out before a handover: the mode is still OpenLoop, the
\* inverter is off, nothing is pending and the commanded speed stands
C38_Witness ==
  /\ s_motor_mode = "OPEN_LOOP" /\ RampRanOut(s_ramp_ctx)
  /\ OutputsOff(inverter) /\ ~s_timerContext.is_active
  /\ ~s_reverse_pending /\ stop_pc = "idle"
  /\ s_speed.commanded = 1500 /\ s_ctx.direction_cw


\* C39: while a reversal is pending a speed command in the current direction
\* overwrites the commanded speed and leaves reverse_pending and the buffered
\* magnitude alone; the next low-loop tick that finds the measured speed below
\* the threshold flips the direction, stops, restarts the alignment and takes
\* the commanded speed from the buffer, and a tick that finds it at or above
\* the threshold leaves the reversal pending
C39_ReversalSurvivesCommand ==
  [][/\ (s_reverse_pending /\ s_motor_mode # "STOPPED") =>
          \A rpm \in SameDirectionCommands :
            Control_Motor_SetSpeed_RPM(Cur, rpm) =
              [Cur EXCEPT !.s_speed.commanded = Abs(rpm)]
     /\ (LowLoopTick /\ s_reverse_pending) =>
          IF s_speed'.measured < REVERSE_SPEED_RPM
          THEN /\ ~s_reverse_pending'
               /\ s_ctx'.direction_cw = ~s_ctx.direction_cw
               /\ s_motor_mode' = "STOPPED"
               /\ s_speed'.commanded = s_speed.buffer
               /\ Pending({"Motor_Align_OnTimer"})'
               /\ s_align' = "Motor_StartOpenLoopRamp"
          ELSE s_reverse_pending' /\ s_ctx'.direction_cw = s_ctx.direction_cw]_vars

\* a reversal towards 0 RPM is pending in a counter-clockwise run, a later
\* counter-clockwise command has overwritten the commanded speed with a
\* magnitude other than the buffered one, and the measured speed is below the
\* threshold
C39_Witness ==
  /\ s_reverse_pending /\ s_motor_mode # "STOPPED" /\ ~s_ctx.direction_cw
  /\ s_speed.commanded = 1500 /\ s_speed.buffer = 0
  /\ s_speed.measured < REVERSE_SPEED_RPM


\* a zero-crossing was rejected for a period above BEMF_MAX_PERIOD_US and none
\* was accepted since
LateRejected ==
  /\ ~bemf.s_bootstrap /\ zc_hist.rejected >= 1
  /\ zc_hist.since > BEMF_MAX_PERIOD_US

\* C40: once a zero-crossing was rejected for a period above
\* BEMF_MAX_PERIOD_US, every step other than reset() leaves the timestamp where
\* it was, accepts no zero-crossing, leaves the flag clear and does not turn
\* valid from false to true, and the monitor is in the same condition afterwards
C40_LateRejectionLatches ==
  [][(LateRejected /\ zc_hist'.class # "reset") =>
       /\ LateRejected'
       /\ zc_hist'.class # "accepted"
       /\ bemf'.s_last_zc_time_us = bemf.s_last_zc_time_us
       /\ ~bemf'.s_bemf_status.zero_cross_detected
       /\ bemf'.s_bemf_status.valid => bemf.s_bemf_status.valid]_vars


\* the monitor had accepted crossings of period 200000 us, then as many
\* crossings as unlock it were rejected for a period above BEMF_MAX_PERIOD_US:
\* valid is false and the timestamp is older than the longest period
C40_Witness ==
  /\ LateRejected /\ zc_hist.class = "rejected"
  /\ zc_hist.rejected >= BEMF_UNLOCK_COUNT
  /\ bemf.s_bemf_status.period_us = 200000
  /\ ~bemf.s_locked /\ ~bemf.s_bemf_status.valid

====
